---- MODULE Spec2Model ----
(***************************************************************************)
(* State-machine models of the design-pattern demonstrations.              *)
(*                                                                         *)
(*   SpecObserver    NewsAgency (attach / detach / setNews / notify)       *)
(*                   driven by an arbitrary client call sequence.          *)
(*   SpecSingleton   Singleton::getInstance (unlocked lazy initialisation) *)
(*                   called from several threads, one memory access per    *)
(*                   step.                                                 *)
(*   SpecThreadSafeFair  SpecThreadSafe under fair scheduling.             *)
(*   SpecThreadSafe  ThreadSafeSingleton::getInstance (lock_guard around   *)
(*                   the check-and-construct step) called from several     *)
(*                   threads.                                              *)
(*   SpecComposite   Manager::addEmployee / Employee::showDetails on the   *)
(*                   objects of the composite demo.                        *)
(*   SpecProxy       ProxyImage construction and ProxyImage::display.      *)
(*   SpecFactory     CarFactory::createCar and Car::drive.                 *)
(*   SpecRemote      RemoteControl::setCommand, pressButton, pressUndo.    *)
(*   SpecStrategy    GPSNavigator::setStrategy, navigate and               *)
(*                   Printer::setPrintStrategy, print.                     *)
(*   SpecAdapter     AudioPlayer::play and the MediaAdapter it creates.    *)
(*   SpecMediaAdapter  a MediaAdapter constructed and played directly.     *)
(*   SpecDecorator   Coffee decorators: wrapping, getCost, getDescription. *)
(*   SpecFacade      HomeTheaterFacade::watchMovie and endMovie.           *)
(*   SpecBuilder     PizzaDirector::constructPizza, the two builders, and  *)
(*                   the client's getPizza, showPizza and delete.          *)
(*                                                                         *)
(* The single-threaded demos share the client-side variables out (the      *)
(* lines written to std::cout), calls (the calls issued so far) and fault  *)
(* (how the program ended abnormally, if it did).                          *)
(***************************************************************************)
EXTENDS Integers, Sequences, FiniteSets, TLC

\* ---------------------------------------------------------------- bounds

\* Longest client call sequence issued against one NewsAgency.
MaxCalls == 5

\* Number of threads calling getInstance.
NumThreads == 2

\* Singleton::getInstance calls issued by each thread.
MaxGets == 2

\* ThreadSafeSingleton::getInstance calls issued by each thread.
MaxTsGets == 3

\* Manager::addEmployee calls issued in the composite demo.
MaxAdds == 4

\* Nested Manager::showDetails calls the stack holds before the next one
\* overflows it (some hundred thousand on the default stack of a build; any
\* number above the depth of the deepest hierarchy without a cycle shows
\* the same behaviour).
StackFrames == 4

\* Characters the buffer behind std::cout holds when the output is not a
\* terminal (the block size of the pipe or file, 4096 in the builds run;
\* taken small, as StackFrames is, so that a run fills it).
BufferChars == 40

\* Calls (constructions and display calls) issued in the proxy demo.
MaxProxyCalls == 5

\* Calls (createCar and drive) issued in the simple factory demo.
MaxFactoryCalls == 4

\* Calls (setCommand, pressButton, pressUndo) issued on the RemoteControl.
MaxRemoteCalls == 4

\* Calls issued on the GPSNavigator and the Printer together.
MaxStrategyCalls == 4

\* Calls of AudioPlayer::play.
MaxPlayCalls == 3

\* Statements (wrap in a decorator, print description and cost) run on
\* myCoffee.
MaxCoffeeCalls == 5

\* Wraps of the chains taken in every order of decorators.
MaxShortChain == 4

\* Wraps of the chains taken as a run of one decorator inside a run of
\* another: long enough for the double sum to depend on the order.
MaxLongChain == 10

\* Client statements (constructPizza, getPizza, showPizza, delete) run in the
\* builder demo.
MaxBuilderCalls == 5

\* Calls (watchMovie, endMovie) issued on the HomeTheaterFacade.
MaxFacadeCalls == 5

\* Statements (construct a MediaAdapter, call its play) run on a MediaAdapter
\* directly.
MaxAdapterCalls == 3

\* ------------------------------------------------------------- vocabulary

\* The three Subscriber objects of the observer demo.
Alice == "Alice"
Bob == "Bob"
Charlie == "Charlie"
Observers == {Alice, Bob, Charlie}

\* The two news strings of the observer demo.
N1 == "Breaking News: Observer Pattern Implemented!"
N2 == "Update: Observer Pattern is Awesome!"
News == {N1, N2}

Threads == 1 .. NumThreads

\* nullptr; constructed objects are numbered 1, 2, ... in construction order.
Null == 0

\* The mutex owner when the mutex is not held.
Free == 0

\* A pointer to nothing: an empty std::shared_ptr, or nullptr.
Empty == "nullptr"

VARIABLES
    observers,    \* NewsAgency::observers, the registry vector
    latestNews,   \* NewsAgency::latestNews
    out,          \* lines written to std::cout, in order
    calls,        \* the calls the client has issued, in order
    instance,     \* Singleton::instance
    created,      \* number of Singleton constructor runs
    printed,      \* lines written by the singleton constructors, in order
    tsInstance,   \* ThreadSafeSingleton::instance
    tsCreated,    \* number of ThreadSafeSingleton constructor runs
    mtx,          \* ThreadSafeSingleton::mtx: the holding thread, or Free
    pc,           \* per thread: position inside getInstance
    local,        \* per thread: the pointer value held in a register
    nullReads,    \* reads of Singleton::instance that observed nullptr
    gets,         \* per thread: getInstance calls started
    rets,         \* per thread: pointers returned by its completed calls
    fault,        \* "none", or how the program ended abnormally
    team,         \* per Manager: Manager::team, the vector of members
    proxies,      \* the ProxyImage objects: fileName and realImage of each
    imagesCreated, \* number of RealImage constructor runs
    cars,         \* the cars CarFactory::createCar returned, in order
    command,      \* RemoteControl::command
    strategy,     \* GPSNavigator::strategy
    printStrategy, \* Printer::strategy
    adapter,      \* AudioPlayer::adapter: "indeterminate" or "dangling"
    adaptersCreated, \* number of MediaAdapter constructor runs
    myCoffee,     \* the Coffee myCoffee points to: PlainCoffee, then the
                  \* decorators around it, innermost first
    pizza,        \* per builder: its member pizza, the address of a Pizza
    heap,         \* per address: the Pizza stored there
    freed,        \* the addresses the client has deleted
    held,         \* the addresses getPizza has handed to the client
    ret,          \* what the latest getPizza returned
    steps,        \* the builder steps run so far, in order
    adapterPlayer \* MediaAdapter::advancedPlayer of the client's own
                  \* adapter, or "unconstructed"

obsVars == <<observers, latestNews, out, calls>>
singVars == <<instance, created, printed, tsInstance, tsCreated, mtx,
              pc, local, nullReads, gets, rets>>
\* The state of the single-threaded demos other than NewsAgency.
\* The state of the builder demo.
builderVars == <<pizza, heap, freed, held, ret, steps>>
demoVars == <<fault, team, proxies, imagesCreated, cars, command, strategy, printStrategy,
              adapter, adaptersCreated, myCoffee, builderVars, adapterPlayer>>
vars == <<observers, latestNews, out, calls,
          instance, created, printed, tsInstance, tsCreated, mtx,
          pc, local, nullReads, gets, rets,
          fault, team, proxies, imagesCreated, cars, command, strategy, printStrategy,
          adapter, adaptersCreated, myCoffee, builderVars, adapterPlayer>>

\* =============================================================== Builder

\* The builders main creates.
Builders == {"veggieBuilder", "meatLoversBuilder"}

\* Where each builder's constructor allocated its Pizza.
AddressOf(b) ==
    CASE b = "veggieBuilder" -> "Pizza@1"
      [] b = "meatLoversBuilder" -> "Pizza@2"

Addresses == {AddressOf(b) : b \in Builders}

\* new Pizza(): empty strings and no toppings.
NewPizza == [crust |-> "", sauce |-> "", toppings |-> <<>>]

\* VeggiePizzaBuilder::setCrust, MeatLoversPizzaBuilder::setCrust on the
\* Pizza p the builder points to.
setCrust(b, p) ==
    CASE b = "veggieBuilder" -> [p EXCEPT !.crust = "Thin"]
      [] b = "meatLoversBuilder" -> [p EXCEPT !.crust = "Thick"]

\* ...::setSauce
setSauce(b, p) ==
    CASE b = "veggieBuilder" -> [p EXCEPT !.sauce = "Tomato"]
      [] b = "meatLoversBuilder" -> [p EXCEPT !.sauce = "Barbecue"]

\* ...::addToppings: assigns the list, it does not append to it.
addToppings(b, p) ==
    CASE b = "veggieBuilder"
           -> [p EXCEPT !.toppings = <<"Bell Peppers", "Mushrooms", "Olives">>]
      [] b = "meatLoversBuilder"
           -> [p EXCEPT !.toppings = <<"Pepperoni", "Sausage", "Bacon">>]

\* The calls in the body of PizzaDirector::constructPizza, in order.
DirectorSteps == <<"setCrust", "setSauce", "addToppings">>

\* One builder step by name.
RunStep(b, s, p) ==
    CASE s = "setCrust" -> setCrust(b, p)
      [] s = "setSauce" -> setSauce(b, p)
      [] s = "addToppings" -> addToppings(b, p)

\* The steps ss run one after the other on p.
RECURSIVE RunSteps(_, _, _)
RunSteps(b, ss, p) ==
    IF ss = <<>> THEN p ELSE RunSteps(b, Tail(ss), RunStep(b, Head(ss), p))

\* The for loop of Pizza::showPizza: each topping followed by a space.
RECURSIVE ToppingsText(_)
ToppingsText(t) ==
    IF t = <<>> THEN "" ELSE Head(t) \o " " \o ToppingsText(Tail(t))

\* The line Pizza::showPizza writes.
showPizza_line(p) ==
    "Pizza with " \o p.crust \o " crust, " \o p.sauce
        \o " sauce, and toppings: " \o ToppingsText(p.toppings) \o "\n"

\* ============================================================ NewsAgency

\* std::vector::push_back
push_back(vec, x) == Append(vec, x)

\* std::remove(first, last, value): the elements different from value are
\* shifted to the front in their original order; the positions from the
\* returned iterator on keep the values they had.
std_remove(vec, value) ==
    LET kept == SelectSeq(vec, LAMBDA x : x # value)
    IN  [vec    |-> kept \o SubSeq(vec, Len(kept) + 1, Len(vec)),
         newEnd |-> Len(kept) + 1]

\* std::vector::erase(first, last): drops the positions first .. last-1.
erase(vec, first, last) ==
    SubSeq(vec, 1, first - 1) \o SubSeq(vec, last, Len(vec))

\* Subscriber::update: one output line, "<name> received update: <message>".
update(name, message) == [who |-> name, msg |-> message]

\* NewsAgency::notify: the lines one pass over the registry writes.
notify(vec, news) == [i \in 1 .. Len(vec) |-> update(vec[i], news)]

\* The registry after detach(o) when the matching entries are removed by
\* swapping the first match with the last element and popping it.
DetachedSwapPop(vec, o) ==
    IF \E i \in 1 .. Len(vec) : vec[i] = o
    THEN LET i == CHOOSE j \in 1 .. Len(vec) :
                      vec[j] = o /\ \A k \in 1 .. j - 1 : vec[k] # o
         IN  SubSeq([vec EXCEPT ![i] = vec[Len(vec)]], 1, Len(vec) - 1)
    ELSE vec

\* The registry after detach(o) when only the first match is erased.
DetachedFirstOnly(vec, o) ==
    IF \E i \in 1 .. Len(vec) : vec[i] = o
    THEN LET i == CHOOSE j \in 1 .. Len(vec) :
                      vec[j] = o /\ \A k \in 1 .. j - 1 : vec[k] # o
         IN  SubSeq(vec, 1, i - 1) \o SubSeq(vec, i + 1, Len(vec))
    ELSE vec

\* The registry after detach(o) when erase is given the single iterator
\* std::remove returned: exactly one position is dropped, the last one when
\* nothing matched.
DetachedEraseOne(vec, o) ==
    LET r == std_remove(vec, o)
        p == IF r.newEnd > Len(vec) THEN Len(vec) ELSE r.newEnd
    IN  SubSeq(r.vec, 1, p - 1) \o SubSeq(r.vec, p + 1, Len(vec))

\* The registry after detach(o): erase(remove(begin, end, o), end).
Detached(vec, o) ==
    LET r == std_remove(vec, o)
    IN  erase(r.vec, r.newEnd, Len(vec) + 1)

\* The registry after attach(o) when an already attached observer is skipped.
AttachedDedup(vec, o) ==
    IF \E i \in 1 .. Len(vec) : vec[i] = o THEN vec ELSE push_back(vec, o)

\* The registry after attach(o).
Attached(vec, o) == push_back(vec, o)

\* The lines setNews(news) writes when notify runs before the new value is
\* stored.
DeliveredStale(vec, old, news) == notify(vec, old)

\* The lines setNews(news) writes: latestNews is assigned first, then notify
\* reads it.
Delivered(vec, old, news) ==
    LET stored == news
    IN  notify(vec, stored)

attach(o) ==
    /\ Len(calls) < MaxCalls
    /\ observers' = Attached(observers, o)
    /\ calls' = Append(calls, [op |-> "attach", arg |-> o])
    /\ UNCHANGED <<latestNews, out>>

detach(o) ==
    /\ Len(calls) < MaxCalls
    /\ observers' = Detached(observers, o)
    /\ calls' = Append(calls, [op |-> "detach", arg |-> o])
    /\ UNCHANGED <<latestNews, out>>

setNews(news) ==
    /\ Len(calls) < MaxCalls
    /\ latestNews' = news
    /\ out' = out \o Delivered(observers, latestNews, news)
    /\ calls' = Append(calls, [op |-> "setNews", arg |-> news])
    /\ UNCHANGED observers

\* A client calls the public NewsAgency::notify() itself: one more pass over
\* the registry with the news stored at that moment ("" before any setNews).
NewsAgency_notify ==
    /\ Len(calls) < MaxCalls
    /\ out' = out \o notify(observers, latestNews)
    /\ calls' = Append(calls, [op |-> "notify", arg |-> ""])
    /\ UNCHANGED <<observers, latestNews>>

InitObserver ==
    /\ observers = <<>>
    /\ latestNews = ""
    /\ out = <<>>
    /\ calls = <<>>

InitSingleton ==
    /\ instance = Null
    /\ created = 0
    /\ printed = <<>>
    /\ tsInstance = Null
    /\ tsCreated = 0
    /\ mtx = Free
    /\ pc = [t \in Threads |-> "idle"]
    /\ local = [t \in Threads |-> Null]
    /\ nullReads = 0
    /\ gets = [t \in Threads |-> 0]
    /\ rets = [t \in Threads |-> <<>>]

\* ============================================================= Composite

\* The objects of the composite demo: three leaves and two Managers.
Dev1 == "dev1"
Dev2 == "dev2"
DesignerC == "designer"
TeamLead == "teamLead"
GeneralManager == "generalManager"
Managers == {TeamLead, GeneralManager}
Leaves == {Dev1, Dev2, DesignerC}
Employees == Leaves \cup Managers

\* Developer::showDetails, Designer::showDetails and the first line of
\* Manager::showDetails.
OwnLine(e) ==
    CASE e = Dev1 -> "Developer: Alice, Position: Frontend Developer\n"
      [] e = Dev2 -> "Developer: Bob, Position: Backend Developer\n"
      [] e = DesignerC -> "Designer: Charlie, Position: UX Designer\n"
      [] e = TeamLead -> "Manager: Team Lead\n"
      [] e = GeneralManager -> "Manager: General Manager\n"

\* The concatenation of the sequences f[1], ..., f[n].
RECURSIVE Flatten(_, _)
Flatten(f, n) == IF n = 0 THEN <<>> ELSE Flatten(f, n - 1) \o f[n]

\* The members visited last to first.
ReverseMembers(members) ==
    [i \in 1 .. Len(members) |-> members[Len(members) + 1 - i]]

\* The members in the order the range-for loop of showDetails visits them.
VisitOrder(members) == members

\* The run of showDetails on e on a stack with room for `frames` nested
\* Manager::showDetails calls: the employees whose line was handed to
\* std::cout, in order, and whether the stack overflowed (dead).  A
\* Manager's call that finds no room dies before its own line is written.
\* A leaf's call needs no more room than the write of its parent's line
\* took, except that the first use of a function costs more than a later
\* one: leafFits tells whether a leaf's call in the last frame's room
\* returns or is the one that dies.
RECURSIVE ShowUntilOverflow(_, _, _, _)
RECURSIVE ShowMembersUntilOverflow(_, _, _, _, _, _)
ShowUntilOverflow(tm, e, frames, leafFits) ==
    IF e \in Leaves
    THEN IF frames = 0 /\ ~leafFits
         THEN [visited |-> <<>>, dead |-> TRUE]
         ELSE [visited |-> <<e>>, dead |-> FALSE]
    ELSE IF frames = 0
         THEN [visited |-> <<>>, dead |-> TRUE]
         ELSE ShowMembersUntilOverflow(tm, VisitOrder(tm[e]), 1, frames - 1,
                                       leafFits, <<e>>)

\* The range-for loop of Manager::showDetails from member i on, after the
\* lines of visited.
ShowMembersUntilOverflow(tm, members, i, frames, leafFits, visited) ==
    IF i > Len(members)
    THEN [visited |-> visited, dead |-> FALSE]
    ELSE LET r == ShowUntilOverflow(tm, members[i], frames, leafFits)
         IN  IF r.dead
             THEN [visited |-> visited \o r.visited, dead |-> TRUE]
             ELSE ShowMembersUntilOverflow(tm, members, i + 1, frames,
                                           leafFits, visited \o r.visited)

\* The characters of the lines written with "\n" and no flush: a Manager's
\* line and the lines of Car::drive.
LineChars(line) ==
    CASE line = "Manager: Team Lead\n"
           -> <<"M", "a", "n", "a", "g", "e", "r", ":", " ",
                "T", "e", "a", "m", " ", "L", "e", "a", "d", "\n">>
      [] line = "Manager: General Manager\n"
           -> <<"M", "a", "n", "a", "g", "e", "r", ":", " ",
                "G", "e", "n", "e", "r", "a", "l", " ",
                "M", "a", "n", "a", "g", "e", "r", "\n">>
      [] line = "Driving a Sedan.\n"
           -> <<"D", "r", "i", "v", "i", "n", "g", " ", "a", " ",
                "S", "e", "d", "a", "n", ".", "\n">>
      [] line = "Driving an SUV.\n"
           -> <<"D", "r", "i", "v", "i", "n", "g", " ", "a", "n", " ",
                "S", "U", "V", ".", "\n">>
      [] line = "Driving a Sports Car.\n"
           -> <<"D", "r", "i", "v", "i", "n", "g", " ", "a", " ",
                "S", "p", "o", "r", "t", "s", " ", "C", "a", "r", ".", "\n">>

\* The first k characters of line.
RECURSIVE Piece(_, _)
Piece(line, k) == IF k = 0 THEN "" ELSE Piece(line, k - 1) \o LineChars(line)[k]

\* Of lines handed to std::cout and not flushed, what had been written out
\* when the process died, through a buffer of size characters: a character
\* that finds the buffer full has the whole buffer written out first, and
\* what is still in the buffer is lost with the process, so the output can
\* end with a piece of a line.
PushedOut(lines, size) ==
    LET RECURSIVE CharsOf(_)
        CharsOf(ls) == IF ls = <<>> THEN 0 ELSE Len(Head(ls)) + CharsOf(Tail(ls))
        RECURSIVE TakeChars(_, _)
        \* The first n characters of ls: whole lines and, when n ends inside
        \* a line, the piece of it.
        TakeChars(ls, n) ==
            IF ls = <<>> \/ n = 0 THEN <<>>
            ELSE IF Len(Head(ls)) <= n
                 THEN <<Head(ls)>> \o TakeChars(Tail(ls), n - Len(Head(ls)))
                 ELSE <<Piece(Head(ls), n)>>
        chars == CharsOf(lines)
    IN  TakeChars(lines, IF chars = 0 THEN 0 ELSE size * ((chars - 1) \div size))

\* What has reached the output when showDetails on e dies of the stack
\* overflow: every line up to the last flush, and of the Managers' lines
\* after it what a full buffer of size characters pushed out.
\* A Developer's and a Designer's line end with std::endl, which flushes; a
\* Manager's ends with "\n", which flushes only when the output is a
\* terminal (tty), where the stream is line-buffered.
ReachedOutput(tm, e, frames, leafFits, tty, size) ==
    LET visited == ShowUntilOverflow(tm, e, frames, leafFits).visited
        flushed == {i \in 1 .. Len(visited) : visited[i] \in Leaves}
        \* The number of employees whose line was handed over before the
        \* last flush.
        k       == IF tty THEN Len(visited)
                   ELSE IF flushed = {} THEN 0
                   ELSE CHOOSE i \in flushed : \A j \in flushed : j <= i
    IN  [i \in 1 .. k |-> OwnLine(visited[i])]
        \o PushedOut([i \in 1 .. Len(visited) - k |-> OwnLine(visited[k + i])], size)

\* The lines showDetails on e writes when the members' lines come first and
\* the Manager's own line last.
RECURSIVE ShowLinesPostOrder(_, _)
ShowLinesPostOrder(tm, e) ==
    IF e \in Leaves
    THEN <<OwnLine(e)>>
    ELSE LET members == VisitOrder(tm[e])
             sub == [i \in 1 .. Len(members) |-> ShowLinesPostOrder(tm, members[i])]
         IN  Flatten(sub, Len(members)) \o <<OwnLine(e)>>

\* The lines Employee::showDetails on e writes: a leaf its own line, a
\* Manager its own line and then the lines of every member in team order.
RECURSIVE ShowLines(_, _)
ShowLines(tm, e) ==
    IF e \in Leaves
    THEN <<OwnLine(e)>>
    ELSE LET members == VisitOrder(tm[e])
             sub == [i \in 1 .. Len(members) |-> ShowLines(tm, members[i])]
         IN  <<OwnLine(e)>> \o Flatten(sub, Len(members))

\* Manager::team after addEmployee(e) when the member also records m as a
\* member of its own (a back-reference).
TeamAddedBackRef(tm, m, e) ==
    IF e \in Managers /\ e # m
    THEN [tm EXCEPT ![m] = push_back(@, e), ![e] = push_back(@, m)]
    ELSE [tm EXCEPT ![m] = push_back(@, e)]

\* Manager::team after addEmployee(e) when an employee that is already a
\* member of some team is not added again.
TeamAddedOnce(tm, m, e) ==
    IF \E k \in Managers : \E i \in 1 .. Len(tm[k]) : tm[k][i] = e
    THEN tm
    ELSE [tm EXCEPT ![m] = push_back(@, e)]

\* Manager::team after m.addEmployee(e).
TeamAdded(tm, m, e) == [tm EXCEPT ![m] = push_back(@, e)]

\* m->addEmployee(e)
addEmployee(m, e) ==
    /\ fault = "none"
    /\ out = <<>>
    /\ Len(calls) < MaxAdds
    /\ team' = TeamAdded(team, m, e)
    /\ calls' = Append(calls, [op |-> "addEmployee", arg |-> <<m, e>>])
    /\ UNCHANGED <<out, fault>>

\* showDetails that stops at a Manager it is already inside of.
showDetailsGuarded(e) ==
    /\ fault = "none"
    /\ out = <<>>
    /\ IF ShowUntilOverflow(team, e, StackFrames, TRUE).dead
       THEN out' = out \o <<OwnLine(e)>>
       ELSE out' = out \o ShowLines(team, e)
    /\ calls' = Append(calls, [op |-> "showDetails", arg |-> e])
    /\ UNCHANGED <<team, fault>>

\* e->showDetails(), the last call of the demo.  When the recursion nests
\* deeper than the stack holds, which it does on a hierarchy in which a
\* Manager contains itself, the call never returns: the process dies of
\* the stack overflow with what the stream had written out by then.  Which
\* call is the one that dies and whether the output is a terminal are the
\* environment's choice.
showDetails(e) ==
    /\ fault = "none"
    /\ out = <<>>
    /\ \E leafFits \in BOOLEAN :
          IF ShowUntilOverflow(team, e, StackFrames, leafFits).dead
          THEN /\ fault' = "stack overflow"
               /\ \E tty \in BOOLEAN :
                     out' = out \o ReachedOutput(team, e, StackFrames, leafFits,
                                                 tty, BufferChars)
          ELSE out' = out \o ShowLines(team, e) /\ UNCHANGED fault
    /\ calls' = Append(calls, [op |-> "showDetails", arg |-> e])
    /\ UNCHANGED team

InitDemos ==
    /\ fault = "none"
    /\ team = [m \in Managers |-> <<>>]
    /\ proxies = <<>>
    /\ imagesCreated = 0
    /\ cars = <<>>
    /\ command = Empty
    /\ strategy = Empty
    /\ printStrategy = Empty
    /\ adapter = "indeterminate"
    /\ adaptersCreated = 0
    /\ pizza = [b \in Builders |-> AddressOf(b)]
    /\ heap = [a \in Addresses |-> NewPizza]
    /\ freed = {}
    /\ held = {}
    /\ ret = Empty
    /\ steps = <<>>
    /\ adapterPlayer = "unconstructed"

\* std::shared_ptr<Coffee> myCoffee = std::make_shared<PlainCoffee>()
InitDecorator == myCoffee = <<"PlainCoffee">>

Init == InitObserver /\ InitSingleton /\ InitDemos /\ InitDecorator

NextObserver ==
    \/ \E o \in Observers : attach(o) /\ UNCHANGED singVars /\ UNCHANGED demoVars
    \/ \E o \in Observers : detach(o) /\ UNCHANGED singVars /\ UNCHANGED demoVars
    \/ \E n \in News : setNews(n) /\ UNCHANGED singVars /\ UNCHANGED demoVars
    \/ NewsAgency_notify /\ UNCHANGED singVars /\ UNCHANGED demoVars

SpecObserver == Init /\ [][NextObserver]_vars

\* What the composite demo leaves alone.
FrameComposite ==
    /\ UNCHANGED <<observers, latestNews>> /\ UNCHANGED singVars
    /\ UNCHANGED <<proxies, imagesCreated, cars, command, strategy, printStrategy>>
    /\ UNCHANGED <<adapter, adaptersCreated, myCoffee>>
    /\ UNCHANGED builderVars /\ UNCHANGED adapterPlayer

NextComposite ==
    \/ \E m \in Managers : \E e \in Employees : addEmployee(m, e) /\ FrameComposite
    \/ \E e \in Employees : showDetails(e) /\ FrameComposite

SpecComposite == Init /\ [][NextComposite]_vars

\* ================================================================= Proxy

\* File names given to the ProxyImage constructor.
Files == {"test_image.jpg", "photo.png"}

\* RealImage::loadFromDisk, called by the RealImage constructor.
loadFromDisk(file) == "Loading image from disk: " \o file

\* RealImage::display
RealImage_display(file) == "Displaying image: " \o file

\* The test `!realImage` replaced by one that always succeeds.
NotLoadedAlways(px) == TRUE

\* ProxyImage::display: the test `!realImage`.
NotLoaded(px) == px.realImage = Null

\* ProxyImage proxy(file): the file name is stored, nothing is loaded.
newProxy(file) ==
    /\ fault = "none"
    /\ Len(calls) < MaxProxyCalls
    /\ proxies' = Append(proxies, [fileName |-> file, realImage |-> Null])
    /\ calls' = Append(calls, [op |-> "ProxyImage", arg |-> file])
    /\ UNCHANGED <<out, imagesCreated, fault>>

\* proxies[i].display(): the RealImage is constructed if there is none yet,
\* then RealImage::display is called on it.
display(i) ==
    /\ fault = "none"
    /\ Len(calls) < MaxProxyCalls
    /\ IF NotLoaded(proxies[i])
       THEN /\ imagesCreated' = imagesCreated + 1
            /\ proxies' = [proxies EXCEPT ![i].realImage = imagesCreated + 1]
            /\ out' = out \o <<loadFromDisk(proxies[i].fileName),
                               RealImage_display(proxies[i].fileName)>>
       ELSE /\ out' = out \o <<RealImage_display(proxies[i].fileName)>>
            /\ UNCHANGED <<proxies, imagesCreated>>
    /\ calls' = Append(calls, [op |-> "display", arg |-> i])
    /\ UNCHANGED fault

\* What the proxy demo leaves alone.
FrameProxy ==
    /\ UNCHANGED <<observers, latestNews>> /\ UNCHANGED singVars
    /\ UNCHANGED <<team, cars, command, strategy, printStrategy>>
    /\ UNCHANGED <<adapter, adaptersCreated, myCoffee>>
    /\ UNCHANGED builderVars /\ UNCHANGED adapterPlayer

NextProxy ==
    \/ \E f \in Files : newProxy(f) /\ FrameProxy
    \/ \E i \in 1 .. Len(proxies) : display(i) /\ FrameProxy

SpecProxy == Init /\ [][NextProxy]_vars

\* =============================================================== Factory

\* Selectors passed to CarFactory::createCar: the three recognised ones and
\* some that are not (other case, another word, the empty string).
Selectors == {"Sedan", "SUV", "SportsCar", "sedan", "suv", "SPORTSCAR", "Truck", ""}

\* Car::drive of the three concrete products.
drive_line(car) ==
    CASE car = "Sedan" -> "Driving a Sedan.\n"
      [] car = "SUV" -> "Driving an SUV.\n"
      [] car = "SportsCar" -> "Driving a Sports Car.\n"

\* createCar with the products of "SUV" and "SportsCar" exchanged.
createCarSwapped(type) ==
    IF type = "Sedan" THEN [car |-> "Sedan", thrown |-> "none"]
    ELSE IF type = "SUV" THEN [car |-> "SportsCar", thrown |-> "none"]
    ELSE IF type = "SportsCar" THEN [car |-> "SUV", thrown |-> "none"]
    ELSE [car |-> Null, thrown |-> "std::invalid_argument: Unknown car type"]

\* createCar that falls back to a Sedan for an unknown selector.
createCarDefault(type) ==
    IF type = "SUV" THEN [car |-> "SUV", thrown |-> "none"]
    ELSE IF type = "SportsCar" THEN [car |-> "SportsCar", thrown |-> "none"]
    ELSE [car |-> "Sedan", thrown |-> "none"]

\* CarFactory::createCar: the product, or the exception thrown.
createCar(type) ==
    IF type = "Sedan" THEN [car |-> "Sedan", thrown |-> "none"]
    ELSE IF type = "SUV" THEN [car |-> "SUV", thrown |-> "none"]
    ELSE IF type = "SportsCar" THEN [car |-> "SportsCar", thrown |-> "none"]
    ELSE [car |-> Null, thrown |-> "std::invalid_argument: Unknown car type"]

\* auto car = CarFactory::createCar(type); the caller has no handler, so an
\* exception ends the program in std::terminate, which flushes nothing: the
\* lines of Car::drive, written with "\n", have all reached a terminal,
\* which is line-buffered, and otherwise only what a full buffer pushed
\* out.
callCreateCar(type) ==
    /\ fault = "none"
    /\ Len(calls) < MaxFactoryCalls
    /\ LET r == createCar(type)
       IN  IF r.thrown = "none"
           THEN /\ cars' = Append(cars, r.car)
                /\ UNCHANGED <<out, fault>>
           ELSE /\ fault' = r.thrown
                /\ \E tty \in BOOLEAN :
                      out' = IF tty THEN out ELSE PushedOut(out, BufferChars)
                /\ UNCHANGED cars
    /\ calls' = Append(calls, [op |-> "createCar", arg |-> type])

\* cars[i]->drive()
drive(i) ==
    /\ fault = "none"
    /\ Len(calls) < MaxFactoryCalls
    /\ out' = Append(out, drive_line(cars[i]))
    /\ calls' = Append(calls, [op |-> "drive", arg |-> i])
    /\ UNCHANGED <<cars, fault>>

\* What the factory demo leaves alone.
FrameFactory ==
    /\ UNCHANGED <<observers, latestNews>> /\ UNCHANGED singVars
    /\ UNCHANGED <<team, proxies, imagesCreated, command, strategy, printStrategy>>
    /\ UNCHANGED <<adapter, adaptersCreated, myCoffee>>
    /\ UNCHANGED builderVars /\ UNCHANGED adapterPlayer

NextFactory ==
    \/ \E t \in Selectors : callCreateCar(t) /\ FrameFactory
    \/ \E i \in 1 .. Len(cars) : drive(i) /\ FrameFactory

SpecFactory == Init /\ [][NextFactory]_vars

\* ================================================================ Remote

\* The commands main creates: lightOn and lightOff, both on livingRoomLight.
Commands == {"lightOn", "lightOff"}

\* Light::turnOn and Light::turnOff.
turnOn == "Light is ON\n"
turnOff == "Light is OFF\n"

\* LightOnCommand::execute, LightOffCommand::execute.
execute(cmd) ==
    CASE cmd = "lightOn" -> turnOn
      [] cmd = "lightOff" -> turnOff

\* undo that runs the command's own action again.
undoRepeats(cmd) == execute(cmd)

\* LightOnCommand::undo, LightOffCommand::undo.
undo(cmd) ==
    CASE cmd = "lightOn" -> turnOff
      [] cmd = "lightOff" -> turnOn

\* pressButton that reports a missing command.
ButtonLinesNotice(cmd) ==
    IF cmd # Empty THEN <<execute(cmd)>> ELSE <<"No command set.\n">>

\* What RemoteControl::pressButton writes with cmd as its command.
ButtonLines(cmd) ==
    IF cmd # Empty THEN <<execute(cmd)>> ELSE <<>>

\* What RemoteControl::pressUndo writes with cmd as its command.
UndoLines(cmd) ==
    IF cmd # Empty THEN <<undo(cmd)>> ELSE <<>>

\* RemoteControl::setCommand(cmd)
setCommand(cmd) ==
    /\ fault = "none"
    /\ Len(calls) < MaxRemoteCalls
    /\ command' = cmd
    /\ calls' = Append(calls, [op |-> "setCommand", arg |-> cmd])
    /\ UNCHANGED <<out, fault>>

\* RemoteControl::pressButton()
pressButton ==
    /\ fault = "none"
    /\ Len(calls) < MaxRemoteCalls
    /\ out' = out \o ButtonLines(command)
    /\ calls' = Append(calls, [op |-> "pressButton", arg |-> ""])
    /\ UNCHANGED <<command, fault>>

\* RemoteControl::pressUndo()
pressUndo ==
    /\ fault = "none"
    /\ Len(calls) < MaxRemoteCalls
    /\ out' = out \o UndoLines(command)
    /\ calls' = Append(calls, [op |-> "pressUndo", arg |-> ""])
    /\ UNCHANGED <<command, fault>>

\* What the command demo leaves alone.
FrameRemote ==
    /\ UNCHANGED <<observers, latestNews>> /\ UNCHANGED singVars
    /\ UNCHANGED <<team, proxies, imagesCreated, cars, strategy, printStrategy>>
    /\ UNCHANGED <<adapter, adaptersCreated, myCoffee>>
    /\ UNCHANGED builderVars /\ UNCHANGED adapterPlayer

NextRemote ==
    \/ \E cmd \in Commands \cup {Empty} : setCommand(cmd) /\ FrameRemote
    \/ pressButton /\ FrameRemote
    \/ pressUndo /\ FrameRemote

SpecRemote == Init /\ [][NextRemote]_vars

\* ============================================================== Strategy

\* The strategies main creates for the navigator.
RouteStrategies == {"shortestRoute", "fastestRoute", "scenicRoute"}

\* The delegates main creates for the printer.
PrintStrategies == {"consolePrinter", "filePrinter"}

\* Texts handed to Printer::print.
Texts == {"Hello, Console!", "Hello, File!"}

\* ShortestRoute, FastestRoute, ScenicRoute ::calculateRoute.
calculateRoute(s) ==
    CASE s = "shortestRoute" -> "Calculating the shortest route.\n"
      [] s = "fastestRoute" -> "Calculating the fastest route.\n"
      [] s = "scenicRoute" -> "Calculating the scenic route.\n"

\* ConsolePrint::print and FilePrint::print.
PrintStrategy_print(s, text) ==
    CASE s = "consolePrinter" -> "Printing to console: " \o text \o "\n"
      [] s = "filePrinter" -> "Saving to file: " \o text \o "\n"

\* navigate that stays silent without a strategy.
NavigateLinesSilent(s) ==
    IF s # Empty THEN <<calculateRoute(s)>> ELSE <<>>

\* What GPSNavigator::navigate writes with s as its strategy.
NavigateLines(s) ==
    IF s # Empty THEN <<calculateRoute(s)>> ELSE <<"No strategy set.\n">>

\* What Printer::print writes with s as its strategy.
PrintLines(s, text) ==
    IF s # Empty THEN <<PrintStrategy_print(s, text)>>
    ELSE <<"No print strategy set!\n">>

\* GPSNavigator::setStrategy(newStrategy)
setStrategy(newStrategy) ==
    /\ fault = "none"
    /\ Len(calls) < MaxStrategyCalls
    /\ strategy' = newStrategy
    /\ calls' = Append(calls, [op |-> "setStrategy", arg |-> newStrategy])
    /\ UNCHANGED <<out, fault, printStrategy>>

\* GPSNavigator::navigate()
navigate ==
    /\ fault = "none"
    /\ Len(calls) < MaxStrategyCalls
    /\ out' = out \o NavigateLines(strategy)
    /\ calls' = Append(calls, [op |-> "navigate", arg |-> ""])
    /\ UNCHANGED <<strategy, printStrategy, fault>>

\* Printer::setPrintStrategy(newStrategy)
setPrintStrategy(newStrategy) ==
    /\ fault = "none"
    /\ Len(calls) < MaxStrategyCalls
    /\ printStrategy' = newStrategy
    /\ calls' = Append(calls, [op |-> "setPrintStrategy", arg |-> newStrategy])
    /\ UNCHANGED <<out, fault, strategy>>

\* Printer::print(text)
print(text) ==
    /\ fault = "none"
    /\ Len(calls) < MaxStrategyCalls
    /\ out' = out \o PrintLines(printStrategy, text)
    /\ calls' = Append(calls, [op |-> "print", arg |-> text])
    /\ UNCHANGED <<strategy, printStrategy, fault>>

\* What the strategy and delegate demos leave alone.
FrameStrategy ==
    /\ UNCHANGED <<observers, latestNews>> /\ UNCHANGED singVars
    /\ UNCHANGED <<team, proxies, imagesCreated, cars, command>>
    /\ UNCHANGED <<adapter, adaptersCreated, myCoffee>>
    /\ UNCHANGED builderVars /\ UNCHANGED adapterPlayer

NextStrategy ==
    \/ \E s \in RouteStrategies \cup {Empty} : setStrategy(s) /\ FrameStrategy
    \/ navigate /\ FrameStrategy
    \/ \E s \in PrintStrategies \cup {Empty} : setPrintStrategy(s) /\ FrameStrategy
    \/ \E text \in Texts : print(text) /\ FrameStrategy

SpecStrategy == Init /\ [][NextStrategy]_vars

\* =============================================================== Adapter

\* Formats asked of the players: the three the code names, and others.
AudioTypes == {"mp3", "vlc", "mp4", "avi", "MP3", ""}

\* File names handed to play.
FileNames == {"song.mp3", "movie.mp4"}

\* AdvancedMediaPlayer::playVlc and ::playMp4.
playVlc(fileName) == "Playing VLC file: " \o fileName \o "\n"
playMp4(fileName) == "Playing MP4 file: " \o fileName \o "\n"

\* A member function called through a null advancedPlayer is undefined
\* behaviour: the build may stop on the access, or run the function body
\* (which reads no member) when the call is resolved at compile time.
NullCall(line) ==
    {[lines |-> <<>>, fault |-> "null pointer dereference"],
     [lines |-> <<line>>, fault |-> "none"]}

\* MediaAdapter::MediaAdapter(audioType): the value of advancedPlayer.
MediaAdapter_new(audioType) ==
    IF audioType = "vlc" THEN "AdvancedMediaPlayer"
    ELSE IF audioType = "mp4" THEN "AdvancedMediaPlayer"
    ELSE Empty

\* MediaAdapter::play(audioType, fileName) on an adapter whose member is
\* advancedPlayer: the outcomes it can have.
MediaAdapter_play(advancedPlayer, audioType, fileName) ==
    IF audioType = "vlc"
    THEN IF advancedPlayer # Empty
         THEN {[lines |-> <<playVlc(fileName)>>, fault |-> "none"]}
         ELSE NullCall(playVlc(fileName))
    ELSE IF audioType = "mp4"
    THEN IF advancedPlayer # Empty
         THEN {[lines |-> <<playMp4(fileName)>>, fault |-> "none"]}
         ELSE NullCall(playMp4(fileName))
    ELSE {[lines |-> <<"Unsupported format: " \o audioType \o "\n">>,
           fault |-> "none"]}

\* AudioPlayer::play that hands every format but mp3 to a MediaAdapter.
AudioPlayer_playAdaptsAll(audioType, fileName) ==
    IF audioType = "mp3"
    THEN {[lines |-> <<"Playing MP3 file: " \o fileName \o "\n">>,
           fault |-> "none", created |-> 0]}
    ELSE {[lines |-> r.lines, fault |-> r.fault, created |-> 1] :
            r \in MediaAdapter_play(MediaAdapter_new(audioType),
                                    audioType, fileName)}

\* AudioPlayer::play(audioType, fileName): the outcomes it can have, each
\* with the number of MediaAdapters it constructed (and deleted again).
AudioPlayer_play(audioType, fileName) ==
    IF audioType = "mp3"
    THEN {[lines |-> <<"Playing MP3 file: " \o fileName \o "\n">>,
           fault |-> "none", created |-> 0]}
    ELSE IF audioType = "vlc" \/ audioType = "mp4"
    THEN {[lines |-> r.lines, fault |-> r.fault, created |-> 1] :
            r \in MediaAdapter_play(MediaAdapter_new(audioType),
                                    audioType, fileName)}
    ELSE {[lines |-> <<"Unsupported format: " \o audioType \o "\n">>,
           fault |-> "none", created |-> 0]}

\* player.play(audioType, fileName); after a vlc or mp4 call the member
\* adapter points to the deleted MediaAdapter.
play(audioType, fileName) ==
    /\ fault = "none"
    /\ Len(calls) < MaxPlayCalls
    /\ \E r \in AudioPlayer_play(audioType, fileName) :
          /\ out' = out \o r.lines
          /\ fault' = r.fault
          /\ adaptersCreated' = adaptersCreated + r.created
          /\ adapter' = IF r.created > 0 THEN "dangling" ELSE adapter
    /\ calls' = Append(calls, [op |-> "play", arg |-> <<audioType, fileName>>])

\* What the adapter demo leaves alone.
FrameAdapter ==
    /\ UNCHANGED <<observers, latestNews>> /\ UNCHANGED singVars
    /\ UNCHANGED <<team, proxies, imagesCreated, cars, command>>
    /\ UNCHANGED <<strategy, printStrategy, myCoffee>>
    /\ UNCHANGED builderVars /\ UNCHANGED adapterPlayer

NextAdapter ==
    \E t \in AudioTypes, f \in FileNames : play(t, f) /\ FrameAdapter

SpecAdapter == Init /\ [][NextAdapter]_vars

\* ============================================================= Decorator

\* The concrete decorators.
Decorators == {"Milk", "Sugar", "Caramel"}

\* b^n
RECURSIVE Power(_, _)
Power(b, n) == IF n = 0 THEN 1 ELSE b * Power(b, n - 1)

\* A number too large for a machine integer is a sequence of limbs, its
\* digits to the base 2^13 = 8192, the least significant first, without
\* zeros at the upper end.  a + b + c, for a carry c of 0 or 1:
RECURSIVE AddBig(_, _, _)
AddBig(a, b, c) ==
    IF a = <<>> /\ b = <<>>
    THEN IF c = 0 THEN <<>> ELSE <<c>>
    ELSE LET x == (IF a = <<>> THEN 0 ELSE a[1]) + (IF b = <<>> THEN 0 ELSE b[1]) + c
         IN  <<x % 8192>> \o AddBig(IF a = <<>> THEN a ELSE Tail(a),
                                    IF b = <<>> THEN b ELSE Tail(b), x \div 8192)

\* b * k + c, for k and c below 2^17.
RECURSIVE MulSmall(_, _, _)
MulSmall(b, k, c) ==
    IF b = <<>>
    THEN IF c = 0 THEN <<>> ELSE <<c % 8192>> \o MulSmall(b, k, c \div 8192)
    ELSE <<(b[1] * k + c) % 8192>> \o MulSmall(Tail(b), k, (b[1] * k + c) \div 8192)

\* The quotient q and the remainder r of b divided by k, for k below 2^17.
RECURSIVE DivSmall(_, _)
DivSmall(b, k) ==
    IF b = <<>> THEN [q |-> <<>>, r |-> 0]
    ELSE LET up == DivSmall(Tail(b), k)
             x  == up.r * 8192 + b[1]
         IN  [q |-> IF up.q = <<>> /\ x < k THEN <<>> ELSE <<x \div k>> \o up.q,
              r |-> x % k]

\* b * 2^n, rounded down.
ShiftBig(b, n) ==
    IF n >= 0
    THEN [i \in 1 .. n \div 13 |-> 0] \o MulSmall(b, Power(2, n % 13), 0)
    ELSE DivSmall(SubSeq(b, (0 - n) \div 13 + 1, Len(b)), Power(2, (0 - n) % 13)).q

\* The integer b stands for.
RECURSIVE ToInt(_)
ToInt(b) == IF b = <<>> THEN 0 ELSE b[1] + 8192 * ToInt(Tail(b))

\* p / (d * 2^s) rounded to the nearest integer and, of two equally near, to
\* the even one, for d below 2^17.
RoundHalfEven(p, d, s) ==
    LET q       == DivSmall(ShiftBig(p, 0 - s), d).q
        \* 2 * p against (2 * q + 1) * d * 2^s
        l       == MulSmall(p, 2, 0)
        r       == ShiftBig(MulSmall(MulSmall(q, 2, 1), d, 0), s)
        differ  == {i \in 1 .. Len(l) : l[i] # r[i]}
        top     == CHOOSE i \in differ : \A j \in differ : j <= i
        above   == IF Len(l) # Len(r) THEN Len(l) > Len(r)
                   ELSE differ # {} /\ l[top] > r[top]
        half    == Len(l) = Len(r) /\ differ = {}
    IN  IF above \/ (half /\ q # <<>> /\ q[1] % 2 = 1)
        THEN AddBig(q, <<>>, 1)
        ELSE q

\* A double is its 53-bit significand m and the exponent e of m's lowest
\* bit: the value is m * 2^e.  The doubles the compiler makes of the
\* literals of the demo (IEEE 754 binary64, the nearest to the decimal):
\* 2.0 is 0x4000000000000000, 0.5 is 0x3FE0000000000000, 0.2 is
\* 0x3FC999999999999A and 0.7 is 0x3FE6666666666666.
DoubleOf(literal) ==
    LET \* The number the hexadecimal digits h write (the most significant
        \* first).
        RECURSIVE FromHex(_)
        FromHex(h) ==
            IF h = <<>> THEN <<>>
            ELSE MulSmall(FromHex(SubSeq(h, 1, Len(h) - 1)), 16, h[Len(h)])
    IN
    CASE literal = "2.0"
           -> [m |-> FromHex(<<1, 0, 0, 0, 0, 0, 0, 0, 0, 0, 0, 0, 0, 0>>), e |-> -51]
      [] literal = "0.5"
           -> [m |-> FromHex(<<1, 0, 0, 0, 0, 0, 0, 0, 0, 0, 0, 0, 0, 0>>), e |-> -53]
      [] literal = "0.2"
           -> [m |-> FromHex(<<1, 9, 9, 9, 9, 9, 9, 9, 9, 9, 9, 9, 9, 10>>), e |-> -55]
      [] literal = "0.7"
           -> [m |-> FromHex(<<1, 6, 6, 6, 6, 6, 6, 6, 6, 6, 6, 6, 6, 6>>), e |-> -53]

\* a + b on doubles: the exact sum rounded to 53 bits, to the nearest and,
\* of two equally near, to the even one.
DoubleAdd(a, b) ==
    LET BitLen(n) == 13 * (Len(n) - 1)
                     + (CHOOSE k \in 1 .. 13 : /\ Power(2, k - 1) <= n[Len(n)]
                                               /\ n[Len(n)] < Power(2, k))
        \* for lo.e <= hi.e
        Sum(lo, hi) ==
            LET sum     == AddBig(ShiftBig(hi.m, hi.e - lo.e), lo.m, 0)
                r       == BitLen(sum) - 53
                rounded == RoundHalfEven(sum, 1, r)
            IN  IF BitLen(rounded) = 54
                THEN [m |-> ShiftBig(rounded, -1), e |-> lo.e + r + 1]
                ELSE [m |-> rounded, e |-> lo.e + r]
    IN  IF a.e <= b.e THEN Sum(a, b) ELSE Sum(b, a)

\* What each decorator's getCost adds.
Increment(d) ==
    CASE d = "Milk" -> DoubleOf("0.5")
      [] d = "Sugar" -> DoubleOf("0.2")
      [] d = "Caramel" -> DoubleOf("0.7")

\* What each decorator's getDescription appends.
Suffix(d) ==
    CASE d = "Milk" -> ", Milk"
      [] d = "Sugar" -> ", Sugar"
      [] d = "Caramel" -> ", Caramel"

\* The coffee a decorator wraps (CoffeeDecorator::coffee).
Wrapped(c) == SubSeq(c, 1, Len(c) - 1)

\* getCost of a decorator that adds its price to the base price only.
getCostOuterOnly(c) ==
    IF Len(c) = 1 THEN DoubleOf("2.0")
    ELSE DoubleAdd(DoubleOf("2.0"), Increment(c[Len(c)]))

\* Coffee::getCost: PlainCoffee returns 2.0, a decorator the cost of the
\* coffee it wraps plus its own.
RECURSIVE getCost(_)
getCost(c) ==
    IF Len(c) = 1 THEN DoubleOf("2.0")
    ELSE DoubleAdd(getCost(Wrapped(c)), Increment(c[Len(c)]))

\* The suffixes of the decorators c[n], ..., c[2], outermost first.
RECURSIVE SuffixesOuterFirst(_, _)
SuffixesOuterFirst(c, n) ==
    IF n <= 1 THEN "" ELSE Suffix(c[n]) \o SuffixesOuterFirst(c, n - 1)

\* getDescription of decorators that put their own suffix before the
\* wrapped coffee's.
getDescriptionOuterFirst(c) ==
    "Plain Coffee" \o SuffixesOuterFirst(c, Len(c))

\* Coffee::getDescription.
RECURSIVE getDescription(_)
getDescription(c) ==
    IF Len(c) = 1 THEN "Plain Coffee"
    ELSE getDescription(Wrapped(c)) \o Suffix(c[Len(c)])

\* std::cout << x for a double x of at least 1 and below 2^31, in the
\* stream's default format (%g with precision 6): the exact value rounded to
\* six significant digits, a tie to the even one; trailing zeros and an
\* empty fraction are dropped, and from 10^6 on the exponent is written.
FormatCost(x) ==
    LET \* The digits of n in width places, without the trailing zeros
        \* when strip.
        RECURSIVE Fraction(_, _, _)
        Fraction(n, width, strip) ==
            IF width = 0 \/ (strip /\ n = 0) THEN ""
            ELSE IF strip /\ n % 10 = 0
                 THEN Fraction(n \div 10, width - 1, TRUE)
                 ELSE Fraction(n \div 10, width - 1, FALSE) \o ToString(n % 10)
        digits == Len(ToString(ToInt(ShiftBig(x.m, x.e))))
        r      == ToInt(IF digits <= 6
                        THEN RoundHalfEven(MulSmall(x.m, Power(10, 6 - digits), 0),
                                           1, 0 - x.e)
                        ELSE RoundHalfEven(x.m, Power(10, digits - 6), 0 - x.e))
        six    == IF r = 1000000 THEN 100000 ELSE r
        exp    == IF r = 1000000 THEN digits ELSE digits - 1
        width  == IF exp < 6 THEN 5 - exp ELSE 5
        frac   == Fraction(six % Power(10, width), width, TRUE)
    IN  ToString(six \div Power(10, width))
        \o (IF frac = "" THEN "" ELSE "." \o frac)
        \o (IF exp < 6 THEN "" ELSE "e+0" \o ToString(exp))

\* myCoffee = std::make_shared<dDecorator>(myCoffee)
wrap(d) ==
    /\ fault = "none"
    /\ Len(calls) < MaxCoffeeCalls
    /\ myCoffee' = Append(myCoffee, d)
    /\ calls' = Append(calls, [op |-> "wrap", arg |-> d])
    /\ UNCHANGED <<out, fault>>

\* std::cout << myCoffee->getDescription() << " costs $"
\*           << myCoffee->getCost() << "\n"
report ==
    /\ fault = "none"
    /\ Len(calls) < MaxCoffeeCalls
    /\ out' = Append(out, getDescription(myCoffee) \o " costs $"
                          \o FormatCost(getCost(myCoffee)) \o "\n")
    /\ calls' = Append(calls, [op |-> "report", arg |-> ""])
    /\ UNCHANGED <<myCoffee, fault>>

\* What the decorator demo leaves alone.
FrameDecorator ==
    /\ UNCHANGED <<observers, latestNews>> /\ UNCHANGED singVars
    /\ UNCHANGED <<team, proxies, imagesCreated, cars, command>>
    /\ UNCHANGED <<strategy, printStrategy, adapter, adaptersCreated>>
    /\ UNCHANGED builderVars /\ UNCHANGED adapterPlayer

NextDecorator ==
    \/ \E d \in Decorators : wrap(d) /\ FrameDecorator
    \/ report /\ FrameDecorator

SpecDecorator == Init /\ [][NextDecorator]_vars

\* getCost and getDescription on chains already built: myCoffee after some
\* statements myCoffee = std::make_shared<dDecorator>(myCoffee), every chain
\* of at most MaxShortChain wraps and every chain of at most MaxLongChain
\* wraps that is a run of one decorator wrapped in a run of another.
InitChains ==
    /\ InitObserver /\ InitSingleton /\ InitDemos
    /\ \/ \E n \in 0 .. MaxShortChain : \E short \in [1 .. n -> Decorators] :
             myCoffee = <<"PlainCoffee">> \o short
       \/ \E a, b \in Decorators : \E p, q \in 0 .. MaxLongChain :
             /\ p + q <= MaxLongChain
             /\ myCoffee = <<"PlainCoffee">>
                             \o [i \in 1 .. p + q |-> IF i <= p THEN a ELSE b]

\* The chain drawn is printed once.
NextChains == calls = <<>> /\ report /\ FrameDecorator

SpecChains == InitChains /\ [][NextChains]_vars

\* ======================================================= Builder actions

\* The record of steps ss of builder b, each with the Pizza it wrote to and
\* whether that Pizza was alive.
Ran(b, ss, alive) ==
    [i \in 1 .. Len(ss) |->
        [builder |-> b, step |-> ss[i], target |-> pizza[b], live |-> alive]]

\* director.constructPizza(&b).  The steps write through the builder's
\* pointer; when the client has deleted that Pizza the first write is
\* undefined behaviour: the freed block no longer holds a std::string, the
\* assignment in setCrust follows its overwritten buffer pointer and the
\* program dies there (SIGSEGV on every run of the build).
constructPizza(b) ==
    /\ fault = "none"
    /\ Len(calls) < MaxBuilderCalls
    /\ IF pizza[b] \notin freed
       THEN /\ heap' = [heap EXCEPT ![pizza[b]] = RunSteps(b, DirectorSteps, @)]
            /\ steps' = steps \o Ran(b, DirectorSteps, TRUE)
            /\ UNCHANGED fault
       ELSE /\ steps' = steps \o Ran(b, <<Head(DirectorSteps)>>, FALSE)
            /\ fault' = "use after free"
            /\ UNCHANGED heap
    /\ calls' = Append(calls, [op |-> "constructPizza", arg |-> b])
    /\ UNCHANGED <<out, pizza, freed, held, ret>>

\* Pizza* p = b.getPizza()
getPizza(b) ==
    /\ fault = "none"
    /\ Len(calls) < MaxBuilderCalls
    /\ ret' = pizza[b]
    /\ held' = held \cup {pizza[b]}
    /\ calls' = Append(calls, [op |-> "getPizza", arg |-> b])
    /\ UNCHANGED <<out, fault, pizza, heap, freed, steps>>

\* p->showPizza() through a pointer the client holds; reading a deleted
\* Pizza is undefined behaviour.  The allocator has overwritten the buffer
\* pointer and the length of crust: the program dies reading it before
\* anything reaches the output (SIGSEGV), or it writes "Pizza with " and
\* then blanks without end, never finishing the line and never returning.
showPizza(a) ==
    /\ fault = "none"
    /\ Len(calls) < MaxBuilderCalls
    /\ IF a \notin freed
       THEN out' = Append(out, showPizza_line(heap[a])) /\ UNCHANGED fault
       ELSE \/ fault' = "use after free" /\ UNCHANGED out
            \/ fault' = "endless output" /\ out' = Append(out, "Pizza with ")
    /\ calls' = Append(calls, [op |-> "showPizza", arg |-> a])
    /\ UNCHANGED builderVars

\* delete p through a pointer the client holds; deleting twice is undefined
\* behaviour: ~Pizza runs again on the freed block and the program dies
\* there (SIGSEGV on every run of the build).
deletePizza(a) ==
    /\ fault = "none"
    /\ Len(calls) < MaxBuilderCalls
    /\ IF a \notin freed
       THEN freed' = freed \cup {a} /\ UNCHANGED fault
       ELSE fault' = "double free" /\ UNCHANGED freed
    /\ calls' = Append(calls, [op |-> "delete", arg |-> a])
    /\ UNCHANGED <<out, pizza, heap, held, ret, steps>>

\* What the builder demo leaves alone.
FrameBuilder ==
    /\ UNCHANGED <<observers, latestNews>> /\ UNCHANGED singVars
    /\ UNCHANGED <<team, proxies, imagesCreated, cars, command>>
    /\ UNCHANGED <<strategy, printStrategy, adapter, adaptersCreated, myCoffee>>
    /\ UNCHANGED adapterPlayer

NextBuilder ==
    \/ \E b \in Builders : constructPizza(b) /\ FrameBuilder
    \/ \E b \in Builders : getPizza(b) /\ FrameBuilder
    \/ \E a \in held : showPizza(a) /\ FrameBuilder
    \/ \E a \in held : deletePizza(a) /\ FrameBuilder

SpecBuilder == Init /\ [][NextBuilder]_vars

\* ================================================================ Facade

\* Movies handed to watchMovie.
Movies == {"Inception", "Dune"}

\* What HomeTheaterFacade::watchMovie writes, statement by statement: its
\* own two lines and between them the lines of Projector::on and ::setInput,
\* SoundSystem::on and ::setVolume, DVDPlayer::on and ::play.
watchMovie_lines(movie) ==
    <<"Preparing to watch movie: " \o movie \o "\n",
      "Projector is ON.\n",
      "Setting projector input to " \o "DVD" \o ".\n",
      "Sound System is ON.\n",
      "Setting volume to " \o ToString(20) \o ".\n",
      "DVD Player is ON.\n",
      "Playing movie: " \o movie \o "\n",
      "Enjoy your movie!\n">>

\* endMovie that leaves the projector running.
endMovie_linesNoProjector ==
    <<"Shutting down the home theater.\n",
      "DVD Player is OFF.\n",
      "Sound System is OFF.\n">>

\* What HomeTheaterFacade::endMovie writes, statement by statement: its own
\* line, then the lines of DVDPlayer::off, SoundSystem::off, Projector::off.
endMovie_lines ==
    <<"Shutting down the home theater.\n",
      "DVD Player is OFF.\n",
      "Sound System is OFF.\n",
      "Projector is OFF.\n">>

\* homeTheater.watchMovie(movie)
watchMovie(movie) ==
    /\ fault = "none"
    /\ Len(calls) < MaxFacadeCalls
    /\ out' = out \o watchMovie_lines(movie)
    /\ calls' = Append(calls, [op |-> "watchMovie", arg |-> movie])
    /\ UNCHANGED fault

\* homeTheater.endMovie()
endMovie ==
    /\ fault = "none"
    /\ Len(calls) < MaxFacadeCalls
    /\ out' = out \o endMovie_lines
    /\ calls' = Append(calls, [op |-> "endMovie", arg |-> ""])
    /\ UNCHANGED fault

\* What the facade demo leaves alone.
FrameFacade ==
    /\ UNCHANGED <<observers, latestNews>> /\ UNCHANGED singVars
    /\ UNCHANGED <<team, proxies, imagesCreated, cars, command>>
    /\ UNCHANGED <<strategy, printStrategy, adapter, adaptersCreated, myCoffee>>
    /\ UNCHANGED builderVars /\ UNCHANGED adapterPlayer

NextFacade ==
    \/ \E movie \in Movies : watchMovie(movie) /\ FrameFacade
    \/ endMovie /\ FrameFacade

SpecFacade == Init /\ [][NextFacade]_vars

\* ========================================================== MediaAdapter

\* MediaAdapter adapter(audioType), replacing the adapter the client had.
newMediaAdapter(audioType) ==
    /\ fault = "none"
    /\ Len(calls) < MaxAdapterCalls
    /\ adapterPlayer' = MediaAdapter_new(audioType)
    /\ calls' = Append(calls, [op |-> "MediaAdapter", arg |-> <<audioType>>])
    /\ UNCHANGED <<out, fault>>

\* adapter.play(audioType, fileName)
adapterPlay(audioType, fileName) ==
    /\ fault = "none"
    /\ Len(calls) < MaxAdapterCalls
    /\ adapterPlayer # "unconstructed"
    /\ \E r \in MediaAdapter_play(adapterPlayer, audioType, fileName) :
          /\ out' = out \o r.lines
          /\ fault' = r.fault
    /\ calls' = Append(calls, [op |-> "MediaAdapter::play",
                               arg |-> <<audioType, fileName>>])
    /\ UNCHANGED adapterPlayer

\* What a directly used MediaAdapter leaves alone.
FrameMediaAdapter ==
    /\ UNCHANGED <<observers, latestNews>> /\ UNCHANGED singVars
    /\ UNCHANGED <<team, proxies, imagesCreated, cars, command>>
    /\ UNCHANGED <<strategy, printStrategy, adapter, adaptersCreated, myCoffee>>
    /\ UNCHANGED builderVars

NextMediaAdapter ==
    \/ \E t \in AudioTypes : newMediaAdapter(t) /\ FrameMediaAdapter
    \/ \E t \in AudioTypes, f \in FileNames :
          adapterPlay(t, f) /\ FrameMediaAdapter

SpecMediaAdapter == Init /\ [][NextMediaAdapter]_vars

\* ============================================================= Singleton

CreatedMsg == "Singleton instance created."
TsCreatedMsg == "Thread-safe Singleton instance created."

\* The test `instance == nullptr` replaced by one that always succeeds.
InstanceIsNullAlways(p) == TRUE

\* Singleton::getInstance: the test `instance == nullptr`.
InstanceIsNull(p) == p = Null

\* The slot after `new Singleton();` whose result is not assigned.
StoredDropped(p, old) == old

\* The slot after `instance = new Singleton();`.
Stored(p, old) == p

\* A thread enters Singleton::getInstance.
S_Call(t) ==
    /\ pc[t] = "idle"
    /\ gets[t] < MaxGets
    /\ pc' = [pc EXCEPT ![t] = "check"]
    /\ gets' = [gets EXCEPT ![t] = @ + 1]
    /\ UNCHANGED <<instance, created, printed, local, nullReads, rets>>

\* The unlocked read of the slot and the branch on it.
S_Check(t) ==
    /\ pc[t] = "check"
    /\ local' = [local EXCEPT ![t] = instance]
    /\ nullReads' = IF instance = Null THEN nullReads + 1 ELSE nullReads
    /\ pc' = [pc EXCEPT ![t] = IF InstanceIsNull(instance) THEN "new" ELSE "ret"]
    /\ UNCHANGED <<instance, created, printed, gets, rets>>

\* `new Singleton()`: the constructor runs and prints its line.
S_New(t) ==
    /\ pc[t] = "new"
    /\ created' = created + 1
    /\ printed' = Append(printed, CreatedMsg)
    /\ local' = [local EXCEPT ![t] = created + 1]
    /\ pc' = [pc EXCEPT ![t] = "store"]
    /\ UNCHANGED <<instance, nullReads, gets, rets>>

\* The assignment to the slot.
S_Store(t) ==
    /\ pc[t] = "store"
    /\ instance' = Stored(local[t], instance)
    /\ pc' = [pc EXCEPT ![t] = "ret"]
    /\ UNCHANGED <<created, printed, local, nullReads, gets, rets>>

\* `return instance;` with no synchronisation: the value returned is the one
\* the thread already holds or the one the slot holds now.
S_Return(t) ==
    /\ pc[t] = "ret"
    /\ \E v \in {local[t], instance} :
          rets' = [rets EXCEPT ![t] = Append(@, v)]
    /\ pc' = [pc EXCEPT ![t] = "idle"]
    /\ local' = [local EXCEPT ![t] = Null]
    /\ UNCHANGED <<instance, created, printed, nullReads, gets>>

\* What a step of Singleton::getInstance leaves alone.
FrameSingleton ==
    UNCHANGED <<tsInstance, tsCreated, mtx>> /\ UNCHANGED obsVars /\ UNCHANGED demoVars

NextSingleton ==
    \/ \E t \in Threads : S_Call(t) /\ FrameSingleton
    \/ \E t \in Threads : S_Check(t) /\ FrameSingleton
    \/ \E t \in Threads : S_New(t) /\ FrameSingleton
    \/ \E t \in Threads : S_Store(t) /\ FrameSingleton
    \/ \E t \in Threads : S_Return(t) /\ FrameSingleton

SpecSingleton == Init /\ [][NextSingleton]_vars

\* ================================================== ThreadSafeSingleton

\* The test `instance == nullptr` replaced by one that always succeeds.
TsInstanceIsNullAlways(p) == TRUE

\* ThreadSafeSingleton::getInstance: the test `instance == nullptr`.
TsInstanceIsNull(p) == p = Null

\* A lock that is granted whatever the state of the mutex.
MutexAvailableAlways(m) == TRUE

\* std::mutex::lock returns only when no thread holds the mutex.
MutexAvailable(m) == m = Free

\* The mutex after an unnamed lock_guard temporary, which is destroyed (and
\* unlocks) at the end of its own statement.
LockGuardTemporary(t) == Free

\* The mutex after `std::lock_guard<std::mutex> lock(mtx);`: held by the
\* caller until the guard leaves scope.
LockGuardHeld(t) == t

\* A thread enters ThreadSafeSingleton::getInstance.
T_Call(t) ==
    /\ pc[t] = "idle"
    /\ gets[t] < MaxTsGets
    /\ pc' = [pc EXCEPT ![t] = "lock"]
    /\ gets' = [gets EXCEPT ![t] = @ + 1]
    /\ UNCHANGED <<tsInstance, tsCreated, printed, mtx, local, rets>>

\* The lock_guard constructor acquires the mutex.
T_Lock(t) ==
    /\ pc[t] = "lock"
    /\ MutexAvailable(mtx)
    /\ mtx' = LockGuardHeld(t)
    /\ pc' = [pc EXCEPT ![t] = "tcheck"]
    /\ UNCHANGED <<tsInstance, tsCreated, printed, local, gets, rets>>

\* The read of the slot and the branch on it.
T_Check(t) ==
    /\ pc[t] = "tcheck"
    /\ local' = [local EXCEPT ![t] = tsInstance]
    /\ pc' = [pc EXCEPT ![t] = IF TsInstanceIsNull(tsInstance) THEN "tnew" ELSE "tret"]
    /\ UNCHANGED <<tsInstance, tsCreated, printed, mtx, gets, rets>>

\* `new ThreadSafeSingleton()`: the constructor runs and prints its line.
T_New(t) ==
    /\ pc[t] = "tnew"
    /\ tsCreated' = tsCreated + 1
    /\ printed' = Append(printed, TsCreatedMsg)
    /\ local' = [local EXCEPT ![t] = tsCreated + 1]
    /\ pc' = [pc EXCEPT ![t] = "tstore"]
    /\ UNCHANGED <<tsInstance, mtx, gets, rets>>

\* The assignment to the slot.
T_Store(t) ==
    /\ pc[t] = "tstore"
    /\ tsInstance' = local[t]
    /\ pc' = [pc EXCEPT ![t] = "tret"]
    /\ UNCHANGED <<tsCreated, printed, mtx, local, gets, rets>>

\* A return that leaves the mutex locked, as after a bare mtx.lock() with
\* no unlock on the return path.
T_ReturnKeepsLock(t) ==
    /\ pc[t] = "tret"
    /\ rets' = [rets EXCEPT ![t] = Append(@, tsInstance)]
    /\ pc' = [pc EXCEPT ![t] = "idle"]
    /\ local' = [local EXCEPT ![t] = Null]
    /\ UNCHANGED <<tsInstance, tsCreated, printed, gets, mtx>>

\* `return instance;`: the slot is read for the return value, then the
\* lock_guard destructor releases the mutex.
T_Return(t) ==
    /\ pc[t] = "tret"
    /\ rets' = [rets EXCEPT ![t] = Append(@, tsInstance)]
    /\ mtx' = Free
    /\ pc' = [pc EXCEPT ![t] = "idle"]
    /\ local' = [local EXCEPT ![t] = Null]
    /\ UNCHANGED <<tsInstance, tsCreated, printed, gets>>

\* What a step of ThreadSafeSingleton::getInstance leaves alone.
FrameThreadSafe ==
    UNCHANGED <<instance, created, nullReads>> /\ UNCHANGED obsVars /\ UNCHANGED demoVars

NextThreadSafe ==
    \/ \E t \in Threads : T_Call(t) /\ FrameThreadSafe
    \/ \E t \in Threads : T_Lock(t) /\ FrameThreadSafe
    \/ \E t \in Threads : T_Check(t) /\ FrameThreadSafe
    \/ \E t \in Threads : T_New(t) /\ FrameThreadSafe
    \/ \E t \in Threads : T_Store(t) /\ FrameThreadSafe
    \/ \E t \in Threads : T_Return(t) /\ FrameThreadSafe

SpecThreadSafe == Init /\ [][NextThreadSafe]_vars

\* A step of thread t inside getInstance once it holds the mutex.
T_Run(t) ==
    (T_Check(t) \/ T_New(t) \/ T_Store(t) \/ T_Return(t)) /\ FrameThreadSafe

\* Fair scheduling: a thread that can run keeps running, and a thread that
\* finds the mutex free again and again is eventually granted it
\* (std::mutex itself promises no order among the waiting threads).  Nothing
\* obliges a thread to call getInstance.
FairThreadSafe ==
    \A t \in Threads :
        /\ WF_vars(T_Run(t))
        /\ SF_vars(T_Lock(t) /\ FrameThreadSafe)

SpecThreadSafeFair == SpecThreadSafe /\ FairThreadSafe

\* ------------------------------------------------- NewsAgency properties

Call(o, a) == [op |-> o, arg |-> a]

\* The step is the client call op(arg).
Called(o, a) == calls' = Append(calls, Call(o, a))

\* The lines written during the step.
Pass == SubSeq(out', Len(out) + 1, Len(out'))

\* The observers a call sequence attached, in call order.
AttachLog(cs) ==
    LET att == SelectSeq(cs, LAMBDA c : c.op = "attach")
    IN  [i \in 1 .. Len(att) |-> att[i].arg]

NoDetach(cs) == \A i \in 1 .. Len(cs) : cs[i].op # "detach"

IsDistinct(s) == \A i, j \in 1 .. Len(s) : s[i] = s[j] => i = j

Count(x, s) == Cardinality({i \in 1 .. Len(s) : s[i] = x})

CountWho(x, lines) == Cardinality({i \in 1 .. Len(lines) : lines[i].who = x})

Front(s) == SubSeq(s, 1, Len(s) - 1)

\* The lines one pass writes when it visits the observers of s in order with
\* message v.
Lines(s, v) == [i \in 1 .. Len(s) |-> [who |-> s[i], msg |-> v]]

\* C1: with k distinct observers attached and none detached, setNews(v)
\* writes exactly one line per observer, in attachment order, each carrying
\* the new value v, and v is the stored news.
C1_SetNewsDeliversInAttachOrder ==
    [][\A v \in News :
          (Called("setNews", v) /\ NoDetach(calls) /\ IsDistinct(AttachLog(calls)))
          => /\ Pass = Lines(AttachLog(calls), v)
             /\ latestNews' = v]_vars

C1_Witness ==
    /\ calls = <<Call("attach", Alice), Call("attach", Bob), Call("attach", Charlie),
                 Call("setNews", N1)>>
    /\ out = <<[who |-> Alice, msg |-> N1], [who |-> Bob, msg |-> N1],
               [who |-> Charlie, msg |-> N1]>>

\* The call sequence is: distinct attaches (and setNews calls), then one
\* detach(o) of an attached observer o as the last call.
DetachedOneOfDistinct(cs, o) ==
    /\ Len(cs) >= 1
    /\ cs[Len(cs)] = Call("detach", o)
    /\ NoDetach(Front(cs))
    /\ IsDistinct(AttachLog(Front(cs)))
    /\ Count(o, AttachLog(Front(cs))) = 1

\* C2: after k distinct observers are attached and one of them is detached,
\* the next setNews(v2) writes one line for each of the k-1 remaining
\* observers, in their original relative order, and none for the detached one.
C2_DetachThenSetNews ==
    [][\A v \in News : \A o \in Observers :
          (Called("setNews", v) /\ DetachedOneOfDistinct(calls, o))
          => /\ Pass = Lines(SelectSeq(AttachLog(Front(calls)), LAMBDA x : x # o), v)
             /\ Len(Pass) = Len(AttachLog(Front(calls))) - 1
             /\ CountWho(o, Pass) = 0]_vars

C2_Witness ==
    /\ calls = <<Call("attach", Alice), Call("attach", Bob), Call("setNews", N1),
                 Call("detach", Bob), Call("setNews", N2)>>
    /\ out = <<[who |-> Alice, msg |-> N1], [who |-> Bob, msg |-> N1],
               [who |-> Alice, msg |-> N2]>>

\* The call sequence is: attaches (and setNews calls) with o attached m >= 2
\* times, then one detach(o) as the last call.
DetachedOneOfRepeated(cs, o) ==
    /\ Len(cs) >= 1
    /\ cs[Len(cs)] = Call("detach", o)
    /\ NoDetach(Front(cs))
    /\ Count(o, AttachLog(Front(cs))) >= 2

\* C3 as stated: detach(o) removes only the first entry of o, so with o
\* attached m >= 2 times o stays attached m-1 times and the next setNews
\* writes m-1 lines for o.
C3_DetachRemovesFirstOnly ==
    [][\A o \in Observers :
          /\ (Called("detach", o) /\ Count(o, observers) >= 2)
             => Count(o, observers') = Count(o, observers) - 1
          /\ \A v \in News :
               (Called("setNews", v) /\ DetachedOneOfRepeated(calls, o))
               => CountWho(o, Pass) = Count(o, AttachLog(Front(calls))) - 1]_vars

\* C3 amended: detach(o) removes every entry of o; with o attached m >= 2
\* times a single detach(o) leaves o attached 0 times, the other entries keep
\* their order, and the next setNews writes no line for o.
C3_DetachRemovesEveryMatch ==
    [][\A o \in Observers :
          /\ (Called("detach", o) /\ Count(o, observers) >= 2)
             => /\ Count(o, observers') = 0
                /\ observers' = SelectSeq(observers, LAMBDA x : x # o)
          /\ \A v \in News :
               (Called("setNews", v) /\ DetachedOneOfRepeated(calls, o))
               => /\ CountWho(o, Pass) = 0
                  /\ Pass = Lines(SelectSeq(AttachLog(Front(calls)),
                                            LAMBDA x : x # o), v)]_vars

C3_Witness ==
    /\ calls = <<Call("attach", Bob), Call("attach", Alice), Call("attach", Bob),
                 Call("detach", Bob), Call("setNews", N1)>>
    /\ observers = <<Alice>>
    /\ out = <<[who |-> Alice, msg |-> N1]>>

\* C4: detach(o) of an observer that is not in the registry changes neither
\* the registry nor the stored news and writes nothing.
C4_DetachAbsentIsNoOp ==
    [][\A o \in Observers :
          (Called("detach", o) /\ Count(o, observers) = 0)
          => UNCHANGED <<observers, latestNews, out>>]_vars

C4_Witness ==
    /\ calls = <<Call("attach", Alice), Call("attach", Charlie), Call("setNews", N1),
                 Call("detach", Bob)>>
    /\ observers = <<Alice, Charlie>>
    /\ latestNews = N1
    /\ Len(out) = 2

\* C5: in every notification pass (a setNews, or a notify the client calls
\* itself) each observer gets as many lines as it has entries in the registry
\* at that moment, and attach adds an entry even when the observer is already
\* attached.
C5_PassMatchesRegistryCounts ==
    [][/\ \A v \in News :
            Called("setNews", v)
            => \A o \in Observers : CountWho(o, Pass) = Count(o, observers)
       /\ Called("notify", "")
            => \A o \in Observers : CountWho(o, Pass) = Count(o, observers)
       /\ \A o \in Observers :
            Called("attach", o)
            => Count(o, observers') = Count(o, observers) + 1]_vars

C5_Witness ==
    /\ calls = <<Call("attach", Alice), Call("attach", Bob), Call("attach", Alice),
                 Call("detach", Charlie), Call("setNews", N2)>>
    /\ out = <<[who |-> Alice, msg |-> N2], [who |-> Bob, msg |-> N2],
               [who |-> Alice, msg |-> N2]>>

\* -------------------------------------------------- Singleton properties

\* Every pointer returned so far is p.
AllReturned(p) == \A t \in Threads : \A i \in 1 .. Len(rets[t]) : rets[t][i] = p

SomeReturned == \E t \in Threads : Len(rets[t]) >= 1

\* C7 as stated: whatever the interleaving of the threads' calls, the
\* Singleton constructor line is printed at most once and every call returns
\* the first-constructed instance.
C7_AlwaysFirstInstance ==
    /\ created <= 1
    /\ Len(printed) <= 1
    /\ AllReturned(1)

\* C7 amended: one line is printed per construction and a construction
\* happens only after an unlocked check observed nullptr; as long as at most
\* one check has observed nullptr, at most one instance is constructed, every
\* call returns it, and the line is printed exactly once.
C7_FirstInstanceUnlessRaced ==
    /\ Len(printed) = created
    /\ created <= nullReads
    /\ nullReads <= 1
       => /\ created <= 1
          /\ AllReturned(1)
          /\ SomeReturned => printed = <<CreatedMsg>>

C7_Witness ==
    \E t1, t2 \in Threads :
        /\ t1 # t2
        /\ Len(rets[t1]) >= 1
        /\ Len(rets[t2]) >= 1
        /\ nullReads = 1
        /\ printed = <<CreatedMsg>>

\* Only thread t has ever called Singleton::getInstance.
OnlyCaller(t) == \A u \in Threads \ {t} : gets[u] = 0

\* C8: when a single thread uses Singleton, no instance exists before its
\* first getInstance call, and after n >= 1 completed calls exactly one
\* construction has happened and all returned pointers are that instance.
C8_SequentialSingleInstance ==
    \A t \in Threads :
        OnlyCaller(t)
        => /\ gets[t] = 0 => (instance = Null /\ created = 0 /\ printed = <<>>)
           /\ Len(rets[t]) >= 1
              => /\ created = 1
                 /\ printed = <<CreatedMsg>>
                 /\ instance = 1
                 /\ \A i \in 1 .. Len(rets[t]) : rets[t][i] = 1

C8_Witness ==
    \E t \in Threads :
        /\ OnlyCaller(t)
        /\ Len(rets[t]) >= 2
        /\ rets[t][1] = rets[t][2]
        /\ created = 1

\* ---------------------------------------- ThreadSafeSingleton properties

\* Thread t is between acquiring and releasing the mutex.
InCheckAndConstruct(t) == pc[t] \in {"tcheck", "tnew", "tstore", "tret"}

\* C6: in every interleaving the ThreadSafeSingleton constructor runs at most
\* once, exactly once as soon as a call has returned, and every call returns
\* the same reference.
C6_ThreadSafeSingleConstruction ==
    /\ tsCreated <= 1
    /\ Len(printed) = tsCreated
    /\ AllReturned(1)
    /\ SomeReturned => (tsCreated = 1 /\ printed = <<TsCreatedMsg>>)

C6_Witness ==
    \E t1, t2 \in Threads :
        /\ t1 # t2
        /\ Len(rets[t1]) >= 1
        /\ Len(rets[t2]) >= 1
        /\ rets[t1][1] = rets[t2][1]
        /\ tsCreated = 1

\* C9: no two threads are between acquiring and releasing the mutex at the
\* same time.
C9_MutualExclusion ==
    \A t1, t2 \in Threads :
        (InCheckAndConstruct(t1) /\ InCheckAndConstruct(t2)) => t1 = t2

C9_Witness ==
    \E t1, t2 \in Threads :
        /\ t1 # t2
        /\ pc[t1] = "tnew"
        /\ pc[t2] = "lock"

\* C10 as stated, second half: a call made after the slot was written (here:
\* by a thread one of whose calls already returned) reads the slot without
\* holding the mutex.
C10_LaterCallsSkipMutex ==
    \A t \in Threads : Len(rets[t]) >= 1 => mtx # t

\* C10 amended: the slot is written at most once (nullptr to the constructed
\* instance, never changed afterwards), and every getInstance call, also one
\* made after the slot was written, reads it while holding the mutex.
C10_WrittenOnceReadUnderMutex ==
    /\ [](\A t \in Threads : InCheckAndConstruct(t) => mtx = t)
    /\ [][tsInstance' # tsInstance => (tsInstance = Null /\ tsInstance' = 1)]_vars
    /\ [][\A t \in Threads :
            (pc[t] = "lock" /\ pc'[t] # "lock") => (mtx = Free /\ mtx' = t)]_vars

C10_Witness ==
    \E t \in Threads :
        /\ Len(rets[t]) >= 1
        /\ pc[t] = "tret"
        /\ mtx = t
        /\ tsInstance = 1

\* -------------------------------------------------- Composite properties

AddCall(m, e) == [op |-> "addEmployee", arg |-> <<m, e>>]

\* The members of the teams of the Managers in S.
MembersOf(tm, S) ==
    UNION {{tm[m][i] : i \in 1 .. Len(tm[m])} : m \in S \cap Managers}

\* The employees reachable from those in S through at most n team lists.
RECURSIVE Within(_, _, _)
Within(tm, S, n) ==
    IF n = 0 THEN S ELSE Within(tm, S \cup MembersOf(tm, S), n - 1)

\* The employees below e: its members, their members, and so on.
Below(tm, e) == Within(tm, MembersOf(tm, {e}), Cardinality(Employees))

\* e and everything below it.
Subtree(tm, e) == {e} \cup Below(tm, e)

\* How many times e is a member, over the teams of the Managers in S.
RECURSIVE Memberships(_, _, _)
Memberships(tm, S, e) ==
    IF S = {} THEN 0
    ELSE LET m == CHOOSE k \in S : TRUE
         IN  Count(e, tm[m]) + Memberships(tm, S \ {m}, e)

\* The hierarchy below e is a tree with root e: e is nobody's member there
\* and every other node is a member exactly once.
IsTree(tm, e) ==
    /\ e \notin Below(tm, e)
    /\ \A n \in Below(tm, e) :
          Memberships(tm, Subtree(tm, e) \cap Managers, n) = 1

\* The position in the output of the line of employee n.
Pos(n) == CHOOSE i \in 1 .. Len(out) : out[i] = OwnLine(n)

LastCall == calls[Len(calls)]

\* C11: showDetails on the root of a tree writes one line per node, each
\* exactly once, every Manager before all the nodes below it, the subtrees
\* of a Manager's members one after the other in the order the members were
\* added; a leaf writes only its own line.
C11_ShowDetailsPreOrder ==
    \A e \in Employees :
        (Len(calls) >= 1 /\ LastCall = [op |-> "showDetails", arg |-> e]
            /\ IsTree(team, e))
        => /\ fault = "none"
           /\ Len(out) = Cardinality(Subtree(team, e))
           /\ \A n \in Subtree(team, e) : Count(OwnLine(n), out) = 1
           /\ \A m \in Subtree(team, e) \cap Managers :
                 /\ \A d \in Below(team, m) : Pos(m) < Pos(d)
                 /\ \A i, j \in 1 .. Len(team[m]) :
                       i < j => \A d \in Subtree(team, team[m][i]) :
                                   Pos(d) < Pos(team[m][j])
           /\ e \in Leaves => out = <<OwnLine(e)>>

C11_Witness ==
    /\ calls = <<AddCall(TeamLead, Dev1), AddCall(TeamLead, Dev2),
                 AddCall(TeamLead, DesignerC), AddCall(GeneralManager, TeamLead),
                 [op |-> "showDetails", arg |-> GeneralManager]>>
    /\ out = <<"Manager: General Manager\n",
               "Manager: Team Lead\n",
               "Developer: Alice, Position: Frontend Developer\n",
               "Developer: Bob, Position: Backend Developer\n",
               "Designer: Charlie, Position: UX Designer\n">>

\* No Manager is reachable from itself through team lists.
Acyclic(tm) == \A m \in Managers : m \notin Below(tm, m)

\* C12 as stated: after any sequence of addEmployee calls the containment
\* graph has no cycle.
C12_NeverCyclic == Acyclic(team)

\* C12 amended: addEmployee checks nothing; a call m.addEmployee(e) leaves
\* the containment graph acyclic exactly when it was acyclic, e is not m, and
\* m is not below e.
C12_AcyclicUnlessAddedBelowItself ==
    [][\A m \in Managers : \A e \in Employees :
          Called("addEmployee", <<m, e>>)
          => (Acyclic(team')
                <=> (Acyclic(team) /\ e # m /\ m \notin Below(team, e)))]_vars

C12_Witness ==
    /\ calls = <<AddCall(TeamLead, Dev1), AddCall(TeamLead, Dev2),
                 AddCall(TeamLead, DesignerC), AddCall(GeneralManager, TeamLead)>>
    /\ team[GeneralManager] = <<TeamLead>>
    /\ team[TeamLead] = <<Dev1, Dev2, DesignerC>>
    /\ Acyclic(team)

\* The addEmployee calls so far that passed e.
TimesAdded(e) ==
    Cardinality({i \in 1 .. Len(calls) :
                    calls[i].op = "addEmployee" /\ calls[i].arg[2] = e})

\* C13 as stated: after any sequence of addEmployee calls every Employee is
\* a member of at most one team and at most once.
C13_AtMostOneParent ==
    \A e \in Employees : Memberships(team, Managers, e) <= 1

\* C13 amended: addEmployee checks nothing; every Employee is a member, over
\* all teams, exactly as many times as it was passed to addEmployee, so it
\* has at most one parent exactly when it was added at most once.
C13_MembershipsEqualAdds ==
    \A e \in Employees : Memberships(team, Managers, e) = TimesAdded(e)

C13_Witness ==
    /\ Len(calls) = 4
    /\ \A e \in Employees : TimesAdded(e) <= 1
    /\ \A e \in Employees : Memberships(team, Managers, e) <= 1
    /\ Memberships(team, Managers, TeamLead) = 1
    /\ Memberships(team, Managers, Dev1) = 1

\* ------------------------------------------------------ Proxy properties

\* The display calls issued so far on proxy i.
Displays(i) ==
    Cardinality({k \in 1 .. Len(calls) :
                    calls[k] = [op |-> "display", arg |-> i]})

\* C14: constructing a proxy writes nothing and loads nothing; the first
\* display() on a proxy writes the loading line and then the displaying line,
\* every later display() on it only the displaying line; a proxy that was
\* displayed n >= 1 times has constructed exactly one RealImage.
C14_ProxyLoadsOnFirstDisplay ==
    /\ [][\A f \in Files :
            Called("ProxyImage", f)
            => /\ Pass = <<>>
               /\ imagesCreated' = imagesCreated
               /\ proxies'[Len(proxies')].realImage = Null]_vars
    /\ [][\A i \in 1 .. Len(proxies) :
            Called("display", i)
            => LET f == proxies[i].fileName
               IN  /\ Displays(i) = 0
                      => Pass = <<"Loading image from disk: " \o f,
                                  "Displaying image: " \o f>>
                   /\ Displays(i) >= 1
                      => Pass = <<"Displaying image: " \o f>>]_vars
    /\ [](imagesCreated
            = Cardinality({i \in 1 .. Len(proxies) : Displays(i) >= 1}))

C14_Witness ==
    /\ calls = <<[op |-> "ProxyImage", arg |-> "test_image.jpg"],
                 [op |-> "display", arg |-> 1],
                 [op |-> "display", arg |-> 1]>>
    /\ out = <<"Loading image from disk: test_image.jpg",
               "Displaying image: test_image.jpg",
               "Displaying image: test_image.jpg">>
    /\ imagesCreated = 1

\* ---------------------------------------------------- Factory properties

\* The selectors of the createCar calls issued so far, in order.
CreateSelectors ==
    LET cr == SelectSeq(calls, LAMBDA c : c.op = "createCar")
    IN  [i \in 1 .. Len(cr) |-> cr[i].arg]

\* The line the variant requested by a recognised selector has to write.
ExpectedDrive(sel) ==
    CASE sel = "Sedan" -> "Driving a Sedan.\n"
      [] sel = "SUV" -> "Driving an SUV.\n"
      [] sel = "SportsCar" -> "Driving a Sports Car.\n"

Recognised == {"Sedan", "SUV", "SportsCar"}

\* C15: createCar with a recognised selector returns a car and raises
\* nothing, and drive on the car obtained for selector s writes the line of
\* s, which is the line of no other selector.
C15_FactoryMapsSelectors ==
    /\ [][\A t \in Recognised :
            Called("createCar", t)
            => /\ fault' = "none"
               /\ Len(cars') = Len(cars) + 1
               /\ drive_line(cars'[Len(cars')]) = ExpectedDrive(t)]_vars
    /\ [][\A i \in 1 .. Len(cars) :
            Called("drive", i)
            => /\ Pass = <<ExpectedDrive(CreateSelectors[i])>>
               /\ \A t \in Recognised \ {CreateSelectors[i]} :
                     Pass # <<ExpectedDrive(t)>>]_vars

C15_Witness ==
    /\ calls = <<[op |-> "createCar", arg |-> "Sedan"],
                 [op |-> "createCar", arg |-> "SUV"],
                 [op |-> "drive", arg |-> 1],
                 [op |-> "drive", arg |-> 2]>>
    /\ out = <<"Driving a Sedan.\n", "Driving an SUV.\n">>

\* The lines o are the beginning of the lines full, the last one possibly
\* cut short.
BeginsLines(o, full) ==
    /\ Len(o) <= Len(full)
    /\ \A i \in 1 .. Len(o) - 1 : o[i] = full[i]
    /\ Len(o) >= 1
         => \/ o[Len(o)] = full[Len(o)]
            \/ \E k \in 1 .. Len(full[Len(o)]) - 1 :
                  o[Len(o)] = Piece(full[Len(o)], k)

\* C16: createCar with any selector other than exactly "Sedan", "SUV" or
\* "SportsCar" raises invalid_argument, yields no car and writes nothing (of
\* the lines written before, those still in the stream's buffer are lost
\* with the program); the exception reaches the caller, which has no
\* handler, so the program takes no further step.
C16_UnknownSelectorThrows ==
    /\ [][\A t \in Selectors \ Recognised :
            Called("createCar", t)
            => /\ fault' = "std::invalid_argument: Unknown car type"
               /\ cars' = cars
               /\ BeginsLines(out', out)]_vars
    /\ [][fault = "std::invalid_argument: Unknown car type" => UNCHANGED vars]_vars
    /\ [](fault # "none"
            => /\ Len(calls) >= 1
               /\ LastCall.op = "createCar"
               /\ LastCall.arg \notin Recognised)

C16_Witness ==
    /\ calls = <<[op |-> "createCar", arg |-> "SportsCar"],
                 [op |-> "drive", arg |-> 1],
                 [op |-> "drive", arg |-> 1],
                 [op |-> "createCar", arg |-> "sedan"]>>
    /\ fault = "std::invalid_argument: Unknown car type"
    /\ cars = <<"SportsCar">>
    /\ out = <<"Driving a Sports Car.\n", "Driving a Sports C">>

\* ----------------------------------------------------- Remote properties

\* The argument of the latest call of op, or none when op was never called.
LatestArg(op, none) ==
    LET s == SelectSeq(calls, LAMBDA c : c.op = op)
    IN  IF s = <<>> THEN none ELSE s[Len(s)].arg

\* The remote has no command: setCommand was never called, or its latest
\* call passed an empty pointer.
NothingAssigned == LatestArg("setCommand", Empty) = Empty

\* C17 as stated: pressButton and pressUndo on a remote with no command each
\* write a notice.
C17_PressWithoutCommandPrintsNotice ==
    [][(Called("pressButton", "") \/ Called("pressUndo", "")) /\ NothingAssigned
        => Len(Pass) >= 1 /\ fault' = "none"]_vars

\* C17 as amended: pressButton and pressUndo on a remote with no command do
\* nothing at all: they write no line, fail in no way and leave the remote
\* as it was; with a command assigned each writes that command's line.
C17_PressWithoutCommandIsSilent ==
    /\ [][(Called("pressButton", "") \/ Called("pressUndo", "")) /\ NothingAssigned
            => Pass = <<>> /\ fault' = "none" /\ command' = command]_vars
    /\ [][(Called("pressButton", "") \/ Called("pressUndo", "")) /\ ~NothingAssigned
            => Len(Pass) = 1 /\ Pass[1] \in {turnOn, turnOff} /\ fault' = "none"]_vars

C17_Witness ==
    /\ calls = <<[op |-> "pressButton", arg |-> ""],
                 [op |-> "setCommand", arg |-> "lightOn"],
                 [op |-> "setCommand", arg |-> Empty],
                 [op |-> "pressUndo", arg |-> ""]>>
    /\ out = <<>>
    /\ fault = "none"

\* --------------------------------------------------- Strategy properties

\* The line each route strategy has to write.
RouteLine(s) ==
    CASE s = "shortestRoute" -> "Calculating the shortest route.\n"
      [] s = "fastestRoute" -> "Calculating the fastest route.\n"
      [] s = "scenicRoute" -> "Calculating the scenic route.\n"

\* The line each print delegate has to write for a text.
DelegateLine(s, text) ==
    CASE s = "consolePrinter" -> "Printing to console: " \o text \o "\n"
      [] s = "filePrinter" -> "Saving to file: " \o text \o "\n"

\* C18: navigate and print with nothing assigned (never set, or last set to
\* an empty pointer) write exactly their notice and do not fail; with a
\* strategy assigned they write exactly the line of the most recently
\* assigned one, and no notice.
C18_NoticeOrLatestStrategy ==
    /\ [][Called("navigate", "")
            => /\ fault' = "none"
               /\ LET s == LatestArg("setStrategy", Empty)
                  IN  Pass = IF s = Empty THEN <<"No strategy set.\n">>
                             ELSE <<RouteLine(s)>>]_vars
    /\ [][\A text \in Texts :
            Called("print", text)
            => /\ fault' = "none"
               /\ LET s == LatestArg("setPrintStrategy", Empty)
                  IN  Pass = IF s = Empty THEN <<"No print strategy set!\n">>
                             ELSE <<DelegateLine(s, text)>>]_vars

C18_Witness ==
    /\ calls = <<[op |-> "navigate", arg |-> ""],
                 [op |-> "setStrategy", arg |-> "shortestRoute"],
                 [op |-> "setStrategy", arg |-> "scenicRoute"],
                 [op |-> "navigate", arg |-> ""]>>
    /\ out = <<"No strategy set.\n", "Calculating the scenic route.\n">>

\* ---------------------------------------------------- Adapter properties

\* C19: play with a format other than exactly "mp3", "vlc" or "mp4" writes
\* "Unsupported format: <type>", raises nothing and constructs no adapter,
\* so later calls are served as any other; "mp3" is played directly, with
\* no adapter, and "vlc" and "mp4" each through one new MediaAdapter.
C19_UnsupportedFormatIsSoft ==
    [][\A t \in AudioTypes, f \in FileNames :
        Called("play", <<t, f>>)
        => /\ fault' = "none"
           /\ t \notin {"mp3", "vlc", "mp4"}
                => /\ Pass = <<"Unsupported format: " \o t \o "\n">>
                   /\ adaptersCreated' = adaptersCreated
           /\ t = "mp3"
                => /\ Pass = <<"Playing MP3 file: " \o f \o "\n">>
                   /\ adaptersCreated' = adaptersCreated
           /\ t = "vlc"
                => /\ Pass = <<"Playing VLC file: " \o f \o "\n">>
                   /\ adaptersCreated' = adaptersCreated + 1
           /\ t = "mp4"
                => /\ Pass = <<"Playing MP4 file: " \o f \o "\n">>
                   /\ adaptersCreated' = adaptersCreated + 1]_vars

C19_Witness ==
    /\ calls = <<[op |-> "play", arg |-> <<"avi", "song.mp3">>],
                 [op |-> "play", arg |-> <<"mp3", "song.mp3">>],
                 [op |-> "play", arg |-> <<"vlc", "movie.mp4">>]>>
    /\ out = <<"Unsupported format: avi\n", "Playing MP3 file: song.mp3\n",
               "Playing VLC file: movie.mp4\n">>
    /\ adaptersCreated = 1
    /\ fault = "none"

\* -------------------------------------------------- Decorator properties

\* The double x as tenths: 10 * x rounded to the nearest integer.
Tenths(x) == ToInt(RoundHalfEven(MulSmall(x.m, 10, 0), 1, 0 - x.e))

\* The decorators wrapped around the plain coffee so far, in order.
Wraps ==
    LET w == SelectSeq(calls, LAMBDA c : c.op = "wrap")
    IN  [i \in 1 .. Len(w) |-> w[i].arg]

\* C20: plain coffee costs 2.0; wrapped in Milk it costs 2.5 and is
\* "Plain Coffee, Milk"; then in Sugar, 2.7 and "Plain Coffee, Milk, Sugar";
\* then in Caramel, 3.4 and "Plain Coffee, Milk, Sugar, Caramel" (costs in
\* tenths); printing the last one writes "... costs $3.4".
C20_MilkSugarCaramel ==
    /\ [](/\ Wraps = <<>>
            => /\ Tenths(getCost(myCoffee)) = 20
               /\ getDescription(myCoffee) = "Plain Coffee"
          /\ Wraps = <<"Milk">>
            => /\ Tenths(getCost(myCoffee)) = 25
               /\ getDescription(myCoffee) = "Plain Coffee, Milk"
          /\ Wraps = <<"Milk", "Sugar">>
            => /\ Tenths(getCost(myCoffee)) = 27
               /\ getDescription(myCoffee) = "Plain Coffee, Milk, Sugar"
          /\ Wraps = <<"Milk", "Sugar", "Caramel">>
            => /\ Tenths(getCost(myCoffee)) = 34
               /\ getDescription(myCoffee)
                    = "Plain Coffee, Milk, Sugar, Caramel")
    /\ [][Called("report", "") /\ Wraps = <<"Milk", "Sugar", "Caramel">>
            => Pass = <<"Plain Coffee, Milk, Sugar, Caramel costs $3.4\n">>]_vars

C20_Witness ==
    /\ calls = <<[op |-> "wrap", arg |-> "Milk"],
                 [op |-> "wrap", arg |-> "Sugar"],
                 [op |-> "report", arg |-> ""],
                 [op |-> "wrap", arg |-> "Caramel"],
                 [op |-> "report", arg |-> ""]>>
    /\ out = <<"Plain Coffee, Milk, Sugar costs $2.7\n",
               "Plain Coffee, Milk, Sugar, Caramel costs $3.4\n">>
    /\ Tenths(getCost(myCoffee)) = 34

\* ---------------------------------------------------- Builder properties

\* The steps a call of constructPizza added to the record.
NewSteps == SubSeq(steps', Len(steps) + 1, Len(steps'))

\* constructPizza(b) has been called.
Constructed(b) == \E i \in 1 .. Len(calls) :
                      calls[i].op = "constructPizza" /\ calls[i].arg = b

\* The product each builder has to assemble.
Assembled(b) ==
    CASE b = "veggieBuilder"
           -> [crust |-> "Thin", sauce |-> "Tomato",
               toppings |-> <<"Bell Peppers", "Mushrooms", "Olives">>]
      [] b = "meatLoversBuilder"
           -> [crust |-> "Thick", sauce |-> "Barbecue",
               toppings |-> <<"Pepperoni", "Sausage", "Bacon">>]

\* C21: every call constructPizza(b) runs exactly setCrust, setSauce,
\* addToppings on b, each once and in that order.
C21_DirectorRunsFixedSteps ==
    [][\A b \in Builders :
        Called("constructPizza", b)
        => /\ Len(NewSteps) = 3
           /\ \A i \in 1 .. Len(NewSteps) : NewSteps[i].builder = b
           /\ [i \in 1 .. Len(NewSteps) |-> NewSteps[i].step]
                = <<"setCrust", "setSauce", "addToppings">>]_vars

\* C22: once constructPizza(b) has been called, getPizza(b) returns b's own
\* Pizza, an object that exists and holds b's assembled product; the two
\* builders point to different Pizzas, and constructPizza(b) leaves the
\* other builder's Pizza as it was.
C22_GetPizzaReturnsOwnProduct ==
    /\ [][\A b \in Builders :
            Called("getPizza", b) /\ Constructed(b)
            => /\ ret' = pizza[b]
               /\ ret' \notin freed'
               /\ heap'[ret'] = Assembled(b)]_vars
    /\ [](\A b, c \in Builders : b # c => pizza[b] # pizza[c])
    /\ [][\A b \in Builders :
            Called("constructPizza", b)
            => \A c \in Builders \ {b} : heap'[pizza[c]] = heap[pizza[c]]]_vars

\* C28: no builder step writes to a Pizza that has been deleted; a builder
\* keeps the Pizza its constructor allocated and getPizza returns it on
\* every call.
C28_NoStepWritesDeletedPizza ==
    /\ [](\A i \in 1 .. Len(steps) : steps[i].live)
    /\ [][pizza' = pizza]_vars
    /\ [][\A b \in Builders : Called("getPizza", b) => ret' = pizza[b]]_vars

\* ----------------------------------------------- Remote: undo properties

\* The greatest element of a non-empty set of numbers.
Greatest(S) == CHOOSE x \in S : \A y \in S : y <= x

\* The positions of the setCommand calls among the first n calls.
SetsBefore(n) == {j \in 1 .. n : calls[j].op = "setCommand"}

\* The command the remote held when call number i was issued.
AssignedAt(i) ==
    IF SetsBefore(i - 1) = {} THEN Empty
    ELSE calls[Greatest(SetsBefore(i - 1))].arg

\* The positions of the pressButton calls that executed a command.
Executions ==
    {i \in 1 .. Len(calls) : calls[i].op = "pressButton" /\ AssignedAt(i) # Empty}

\* What the light reports when a command is executed, and the opposite report.
ReportOf(cmd) ==
    CASE cmd = "lightOn" -> "Light is ON\n"
      [] cmd = "lightOff" -> "Light is OFF\n"

Opposite(line) ==
    CASE line = "Light is ON\n" -> "Light is OFF\n"
      [] line = "Light is OFF\n" -> "Light is ON\n"

\* A pressButton executed the command now assigned, and no setCommand came
\* after it.
PressedSinceSet ==
    /\ Executions # {}
    /\ \A j \in SetsBefore(Len(calls)) : j < Greatest(Executions)

\* C23: with a command assigned and no setCommand since the pressButton that
\* executed it, pressUndo makes the light report the opposite of what that
\* pressButton made it report: ON then OFF for lightOn, OFF then ON for
\* lightOff.
C23_UndoInvertsButton ==
    [][Called("pressUndo", "") /\ PressedSinceSet
        => LET cmd == AssignedAt(Len(calls) + 1)
           IN  /\ Pass = <<Opposite(ReportOf(cmd))>>
               /\ LastCall.op = "pressButton"
                    => /\ out[Len(out)] = ReportOf(cmd)
                       /\ out'[Len(out')] # out[Len(out)]]_vars

C23_Witness ==
    /\ calls = <<[op |-> "setCommand", arg |-> "lightOff"],
                 [op |-> "pressButton", arg |-> ""],
                 [op |-> "pressUndo", arg |-> ""]>>
    /\ out = <<"Light is OFF\n", "Light is ON\n">>

\* C27: pressUndo reverses the command most recently executed by
\* pressButton, whatever setCommand calls came in between: the light then
\* reports the opposite of what that pressButton made it report.
C27_UndoReversesLastExecuted ==
    [][Called("pressUndo", "") /\ Executions # {}
        => Pass = <<Opposite(ReportOf(AssignedAt(Greatest(Executions))))>>]_vars

\* ----------------------------------------------------- Facade properties

\* The lines of a sequence, as a set.
LineSet(s) == {s[i] : i \in 1 .. Len(s)}

\* Per device, the line that reports it on and the line that reports it off.
Devices == {"DVD Player", "Sound System", "Projector"}
IsOn(d) == d \o " is ON.\n"
IsOff(d) == d \o " is OFF.\n"

\* C24: watchMovie(m) writes the "Preparing" line, then projector on,
\* projector input DVD, sound on, volume 20, DVD on, play m, then the "Enjoy"
\* line; endMovie writes its heading, then DVD player off, sound system off,
\* projector off; every device watchMovie reported on is reported off by the
\* endMovie that follows.
C24_FacadeOrder ==
    /\ [][\A movie \in Movies :
            Called("watchMovie", movie)
            => Pass = <<"Preparing to watch movie: " \o movie \o "\n",
                        "Projector is ON.\n",
                        "Setting projector input to DVD.\n",
                        "Sound System is ON.\n",
                        "Setting volume to 20.\n",
                        "DVD Player is ON.\n",
                        "Playing movie: " \o movie \o "\n",
                        "Enjoy your movie!\n">>]_vars
    /\ [][Called("endMovie", "")
            => /\ Pass = <<"Shutting down the home theater.\n",
                           "DVD Player is OFF.\n",
                           "Sound System is OFF.\n",
                           "Projector is OFF.\n">>
               /\ Len(calls) >= 1 /\ LastCall.op = "watchMovie"
                    => \A d \in Devices :
                          IsOn(d) \in LineSet(SubSeq(out, Len(out) - 7, Len(out)))
                          => IsOff(d) \in LineSet(Pass)]_vars

C24_Witness ==
    /\ calls = <<[op |-> "watchMovie", arg |-> "Inception"],
                 [op |-> "endMovie", arg |-> ""]>>
    /\ Len(out) = 12
    /\ out[7] = "Playing movie: Inception\n"
    /\ out[12] = "Projector is OFF.\n"

\* ------------------------------------------ Composite: termination of showDetails

\* Some Manager at or below e is below itself.
ReachesCycle(tm, e) ==
    \E m \in Subtree(tm, e) \cap Managers : m \in Below(tm, m)

\* The first n employees of the pre-order walk from e that follows every
\* member, a Manager that is inside its own team included.
RECURSIVE WalkFirst(_, _, _)
RECURSIVE WalkMembersFirst(_, _, _, _)
WalkFirst(tm, e, n) ==
    IF n = 0 THEN <<>>
    ELSE IF e \in Leaves THEN <<e>>
    ELSE <<e>> \o WalkMembersFirst(tm, tm[e], 1, n - 1)

WalkMembersFirst(tm, members, i, n) ==
    IF n = 0 \/ i > Len(members) THEN <<>>
    ELSE LET w == WalkFirst(tm, members[i], n)
         IN  w \o WalkMembersFirst(tm, members, i + 1, n - Len(w))

\* The lines o are the beginning of the lines of the employees es: the same
\* lines in the same order, the last one possibly cut short.
BeginsWalk(o, es) ==
    /\ Len(o) <= Len(es)
    /\ \A i \in 1 .. Len(o) - 1 : o[i] = OwnLine(es[i])
    /\ Len(o) >= 1
         => \/ o[Len(o)] = OwnLine(es[Len(o)])
            \/ /\ es[Len(o)] \in Managers
               /\ \E k \in 1 .. Len(OwnLine(es[Len(o)])) - 1 :
                     o[Len(o)] = Piece(OwnLine(es[Len(o)]), k)

\* C25: showDetails on e returns, having written at least e's line, when no
\* Manager at or below e is reachable from itself, in particular on every
\* hierarchy without a cycle; nothing detects a cycle, so when e reaches a
\* Manager that is below itself the traversal never returns: the recursion
\* exhausts the stack and the process dies, and what has reached the output
\* by then is a beginning of the endless pre-order walk from e, its last
\* line possibly cut short.
C25_TerminatesUnlessCyclic ==
    \A e \in Employees :
        (Len(calls) >= 1 /\ LastCall = [op |-> "showDetails", arg |-> e])
        => /\ Acyclic(team) => fault = "none"
           /\ ~ReachesCycle(team, e) => (fault = "none" /\ Len(out) >= 1)
           /\ ReachesCycle(team, e)
                => /\ fault = "stack overflow"
                   /\ BeginsWalk(out, WalkFirst(team, e, Len(out)))

C25_Witness ==
    /\ calls = <<AddCall(GeneralManager, TeamLead), AddCall(TeamLead, Dev1),
                 AddCall(TeamLead, GeneralManager),
                 [op |-> "showDetails", arg |-> GeneralManager]>>
    /\ fault = "stack overflow"
    /\ out = <<OwnLine(GeneralManager), OwnLine(TeamLead), OwnLine(Dev1),
               OwnLine(GeneralManager), "Manager: Team L">>

\* ----------------------------------------------- MediaAdapter properties

\* C26: whatever type the adapter was constructed with and whatever type
\* play is given, play either hands the file to an AdvancedMediaPlayer that
\* exists, or writes "Unsupported format: <type>"; it never calls through a
\* null advancedPlayer, and so never fails.
C26_PlayNeverUsesNullPlayer ==
    [][\A t \in AudioTypes, f \in FileNames :
        Called("MediaAdapter::play", <<t, f>>)
        => /\ fault' = "none"
           /\ \/ /\ adapterPlayer # Empty
                 /\ Pass \in {<<"Playing VLC file: " \o f \o "\n">>,
                              <<"Playing MP4 file: " \o f \o "\n">>}
              \/ Pass = <<"Unsupported format: " \o t \o "\n">>]_vars

\* ------------------------------------------- ThreadSafeSingleton: liveness

\* C29: under fair scheduling every getInstance call of every thread
\* eventually returns: no thread stays inside the call, waiting for the
\* mutex or holding it, for ever.
C29_EveryCallReturns ==
    \A t \in Threads : (pc[t] # "idle") ~> (pc[t] = "idle")

\* A thread that has already completed a call waits for the mutex while
\* another thread holds it.
C29_Witness ==
    \E t, u \in Threads :
        /\ t # u
        /\ pc[t] = "lock"
        /\ mtx = u
        /\ Len(rets[t]) >= 1

\* ------------------------------------------ Decorator: chains of any shape

\* ", d1, d2, ..." for the decorators of w, first to last.
RECURSIVE Listed(_)
Listed(w) == IF w = <<>> THEN "" ELSE ", " \o Head(w) \o Listed(Tail(w))

\* w with its elements i and i + 1 exchanged.
Exchanged(w, i) ==
    [k \in 1 .. Len(w) |-> IF k = i THEN w[i + 1] ELSE IF k = i + 1 THEN w[i] ELSE w[k]]

\* C30: for every chain of Milk, Sugar and Caramel decorators around
\* PlainCoffee, repeats included, getCost is 2.0 plus 0.5 per Milk, 0.2 per
\* Sugar and 0.7 per Caramel when the double it returns is read in tenths,
\* and read so it stays the same when two neighbouring decorators are
\* exchanged; getDescription is "Plain Coffee" followed by ", <decorator>"
\* for each decorator in wrapping order, innermost first.
C30_CostSumDescriptionInOrder ==
    LET wrapped == Tail(myCoffee)
    IN  /\ Tenths(getCost(myCoffee))
             = 20 + 5 * Count("Milk", wrapped) + 2 * Count("Sugar", wrapped)
                  + 7 * Count("Caramel", wrapped)
        /\ \A i \in 2 .. Len(myCoffee) - 1 :
              Tenths(getCost(Exchanged(myCoffee, i))) = Tenths(getCost(myCoffee))
        /\ getDescription(myCoffee) = "Plain Coffee" \o Listed(wrapped)

\* Sugar wrapped in nine Caramels has been printed as 8.5; the double
\* getCost returns for it is not the double it returns for the nine
\* Caramels wrapped in Sugar, and both are 85 tenths.
C30_Witness ==
    /\ myCoffee = <<"PlainCoffee", "Sugar">> \o [i \in 1 .. 9 |-> "Caramel"]
    /\ calls = <<[op |-> "report", arg |-> ""]>>
    /\ out = <<"Plain Coffee, Sugar, Caramel, Caramel, Caramel, Caramel, "
               \o "Caramel, Caramel, Caramel, Caramel, Caramel costs $8.5\n">>
    /\ getCost(myCoffee)
         # getCost(<<"PlainCoffee">> \o [i \in 1 .. 9 |-> "Caramel"] \o <<"Sugar">>)
    /\ Tenths(getCost(<<"PlainCoffee">> \o [i \in 1 .. 9 |-> "Caramel"] \o <<"Sugar">>))
         = 85

====
